---- MODULE Spec2Model ----
(***************************************************************************)
(* Model of the binary-analysis engine of mason (src/src/parser.rs,        *)
(* src/src/types.rs): segment extraction and conflict detection, the       *)
(* MemoryRegion range queries, the RTT control-block decoder, the symbol   *)
(* and defmt scans, and the builder of the DWARF symbol tree.              *)
(*                                                                         *)
(* u64 arithmetic is modelled at a scaled-down width of AddrBits bits:     *)
(* U64Max stands for u64::MAX and U64Modulus for 2^64.  An addition whose  *)
(* mathematical result exceeds U64Max wraps in a build without overflow    *)
(* checks (release profile) and panics in a build with them (debug         *)
(* profile); both outcomes are modelled.                                   *)
(***************************************************************************)
EXTENDS Integers, Sequences, FiniteSets, TLC

VARIABLES
    container,       \* what fs::read + object::File::parse make of the file
    sections,        \* the section headers of the file, in header order
    memory_regions,  \* Option<&[MemoryRegion]> handed to parse_elf_segments
    segResult,       \* outcome of parse_elf_segments
    query,           \* a MemoryRegion and the (address, size) asked of it
    queryResult,     \* outcome of contains and overlaps on the query
    is_64,           \* obj.is_64(): the file's address class
    endianness,      \* obj.endianness(): "Little" or "Big"
    symbols,         \* the symbol table of the file, in table order
    rttResult,       \* outcome of parse_rtt_info
    debug_info,      \* the units gimli reads from the debug sections
    dwarfResult,     \* outcome of the last parse_dwarf_info
    id_counter,      \* id_counter of parse_dwarf_info when it last returned
    builds,          \* the trees returned by parse_dwarf_info so far
    symResult,       \* outcome of parse_elf_symbols
    defmtResult,     \* outcome of parse_defmt_info
    view,            \* the MemoryView of the window
    event            \* the last handler MemoryView ran, and its argument

fileVars == <<container, sections, is_64, endianness, symbols, debug_info>>
queryVars == <<query, queryResult>>
dwarfVars == <<dwarfResult, id_counter, builds>>
scanVars == <<symResult, defmtResult>>
viewVars == <<view, event>>
vars == <<fileVars, memory_regions, segResult, queryVars, rttResult, dwarfVars,
          scanVars, viewVars>>

(***************************************************************************)
(* Bounds of the model.                                                    *)
(***************************************************************************)
AddrBits == 13       \* scaled-down width of u64
MaxSections == 2     \* section headers per file
MaxLowAddr == 2      \* section addresses are 0..MaxLowAddr or near U64Max
MaxSize == 2         \* section sizes are 0..MaxSize
MaxMapEntries == 2   \* entries of a target's memory map
MaxMapAddr == 3      \* memory-map ranges lie in 0..MaxMapAddr
MaxRangeAddr == 3    \* range queries use 0..MaxRangeAddr and values near U64Max
MaxBuffers == 2      \* declared RTT buffers are 0..MaxBuffers, 16 or 17
MaxCut == 1          \* bytes cut from the end of a control-block image
MaxSymbols == 2      \* symbols per symbol table
MaxBuilds == 2       \* builds of the DWARF tree on one file
MaxUnits == 2        \* units in the debug sections
MaxTopLevel == 2     \* entries directly under the first compile unit
MaxAttrs == 2        \* attributes of the entry of SpecAttrs
MaxOrderSections == 3  \* sections of the file of SpecOrder

U64Modulus == 2 ^ AddrBits
U64Max == U64Modulus - 1

None == [some |-> FALSE]
Some(v) == [some |-> TRUE, value |-> v]

(***************************************************************************)
(* fs::read(path) and object::File::parse(&*data), the first two lines of  *)
(* every operation on the file: they succeed on a readable, well-formed    *)
(* container, whatever its debug sections hold.                            *)
(***************************************************************************)
FileParses_ChecksDebug(c, units) ==
    c = "elf" /\ \A k \in 1..Len(units) : units[k].fault = "none"

FileParses(c, units) == c = "elf"

(***************************************************************************)
(* u64 addition: the wrapped sum, and whether the exact sum overflows.     *)
(***************************************************************************)
WrappingAdd(a, b) == (a + b) % U64Modulus
AddOverflows(a, b) == a + b > U64Max

(***************************************************************************)
(* types.rs: MemoryRegion::contains / MemoryRegion::overlaps, as compiled  *)
(* without overflow checks.                                                *)
(***************************************************************************)
contains(self, address, size) ==
    LET end == WrappingAdd(address, size)
        region_end == WrappingAdd(self.start, self.size)
    IN  address >= self.start /\ end <= region_end

overlaps(self, address, size) ==
    LET end == WrappingAdd(address, size)
        region_end == WrappingAdd(self.start, self.size)
    IN  ~(end <= self.start \/ address >= region_end)

\* With overflow checks either sum panics when it does not fit.
RangeQueryPanics(self, address, size) ==
    AddOverflows(address, size) \/ AddOverflows(self.start, self.size)

(***************************************************************************)
(* parser.rs: load_memory_layout_from_probe_rs.  A memory-map entry is a   *)
(* probe-rs range start..end (start <= end <= u64::MAX) with a tag and an  *)
(* optional name; name_has_ram tells whether the lower-cased name contains *)
(* "ram".                                                                  *)
(***************************************************************************)
DefaultRegionName(tag) ==
    CASE tag = "Ram" -> "RAM"
      [] tag = "Nvm" -> "FLASH"
      [] OTHER -> "GENERIC"

RegionOfEntry(e) ==
    [name  |-> IF e.name.some THEN e.name.value ELSE DefaultRegionName(e.tag),
     start |-> e.start,
     size  |-> e.end - e.start,
     kind  |-> IF e.tag = "Ram" THEN "Ram"
               ELSE IF e.tag = "Nvm" THEN "Flash"
               ELSE IF e.name.some /\ e.name_has_ram THEN "Ram" ELSE "Flash"]

\* Vec::sort_by_key is a stable sort: insert after every element whose key
\* is not greater.
RECURSIVE InsertByStart(_, _)
InsertByStart(sorted, r) ==
    IF sorted = <<>> THEN <<r>>
    ELSE IF Head(sorted).start <= r.start
         THEN <<Head(sorted)>> \o InsertByStart(Tail(sorted), r)
         ELSE <<r>> \o sorted

RECURSIVE SortByStart(_)
SortByStart(rs) ==
    IF rs = <<>> THEN <<>>
    ELSE InsertByStart(SortByStart(SubSeq(rs, 1, Len(rs) - 1)), rs[Len(rs)])

load_memory_layout_from_probe_rs(memory_map) ==
    LET regions == [i \in 1..Len(memory_map) |-> RegionOfEntry(memory_map[i])]
    IN  IF regions = <<>>
        THEN [ok |-> FALSE, regions |-> <<>>]
        ELSE [ok |-> TRUE, regions |-> SortByStart(regions)]

(***************************************************************************)
(* parser.rs: parse_elf_segments, the section filter and the segment       *)
(* records.                                                                *)
(***************************************************************************)
BitSet(flags, mask) == (flags \div mask) % 2 = 1

is_allocated(section) == BitSet(section.sh_flags, 2)     \* SHF_ALLOC

SectionKept_AnyAddress(section) ==
    section.size > 0 /\ is_allocated(section)

SectionKept(section) ==
    section.size > 0 /\ section.address > 0 /\ is_allocated(section)

FlagsString(section) ==
    <<"R",
      IF BitSet(section.sh_flags, 1) THEN "W" ELSE "-",    \* SHF_WRITE
      IF BitSet(section.sh_flags, 4) THEN "X" ELSE "-">>   \* SHF_EXECINSTR

SegmentOfSection(section) ==
    [name      |-> section.name,
     address   |-> section.address,
     size      |-> section.size,
     flags     |-> FlagsString(section),
     is_load   |-> section.file_range.some /\ section.file_range.value > 0,
     conflicts |-> <<>>]

RECURSIVE CollectSegments(_)
CollectSegments(secs) ==
    IF secs = <<>> THEN <<>>
    ELSE IF SectionKept(Head(secs))
         THEN <<SegmentOfSection(Head(secs))>> \o CollectSegments(Tail(secs))
         ELSE CollectSegments(Tail(secs))

RECURSIVE InsertByAddress(_, _)
InsertByAddress(sorted, s) ==
    IF sorted = <<>> THEN <<s>>
    ELSE IF Head(sorted).address <= s.address
         THEN <<Head(sorted)>> \o InsertByAddress(Tail(sorted), s)
         ELSE <<s>> \o sorted

RECURSIVE SortByAddress(_)
SortByAddress(segs) ==
    IF segs = <<>> THEN <<>>
    ELSE InsertByAddress(SortByAddress(SubSeq(segs, 1, Len(segs) - 1)),
                         segs[Len(segs)])

(***************************************************************************)
(* parser.rs: detect_conflicts.  A diagnostic string is modelled by its    *)
(* format string and its argument.                                         *)
(***************************************************************************)
OverlapsWith(name) == [msg |-> "Overlaps with {}", arg |-> name]
PartiallyOutside(name) == [msg |-> "Partially outside {} region", arg |-> name]
NotInAnyRegion == [msg |-> "Not in any defined memory region", arg |-> ""]

SegmentsOverlap(seg, other) ==
    LET seg_start == seg.address
        seg_end == WrappingAdd(seg_start, seg.size)
        other_start == other.address
        other_end == WrappingAdd(other_start, other.size)
    IN  ~(seg_end <= other_start \/ seg_start >= other_end)

RECURSIVE OverlapConflicts(_, _, _)
OverlapConflicts(segments, i, j) ==
    IF j > Len(segments) THEN <<>>
    ELSE IF i # j /\ SegmentsOverlap(segments[i], segments[j])
         THEN <<OverlapsWith(segments[j].name)>>
                  \o OverlapConflicts(segments, i, j + 1)
         ELSE OverlapConflicts(segments, i, j + 1)

\* The loop over the regions: the diagnostics it appends and the final
\* in_valid_region flag.
RECURSIVE RegionCheck(_, _, _)
RegionCheck(seg, regions, in_valid_region) ==
    IF regions = <<>>
    THEN [conflicts |-> <<>>, in_valid_region |-> in_valid_region]
    ELSE IF contains(Head(regions), seg.address, seg.size)
         THEN [conflicts |-> <<>>, in_valid_region |-> TRUE]
         ELSE IF overlaps(Head(regions), seg.address, seg.size)
              THEN LET rest == RegionCheck(seg, Tail(regions), TRUE)
                   IN  [conflicts |-> <<PartiallyOutside(Head(regions).name)>>
                                          \o rest.conflicts,
                        in_valid_region |-> rest.in_valid_region]
              ELSE RegionCheck(seg, Tail(regions), in_valid_region)

SegmentConflicts_RegionsFirst(segments, i, regions) ==
    LET check == RegionCheck(segments[i], regions, FALSE)
    IN  check.conflicts
        \o (IF check.in_valid_region THEN <<>> ELSE <<NotInAnyRegion>>)
        \o OverlapConflicts(segments, i, 1)

SegmentConflicts(segments, i, regions) ==
    LET check == RegionCheck(segments[i], regions, FALSE)
    IN  OverlapConflicts(segments, i, 1)
        \o check.conflicts
        \o (IF check.in_valid_region THEN <<>> ELSE <<NotInAnyRegion>>)

detect_conflicts(segments, regions) ==
    [i \in 1..Len(segments) |->
        [segments[i] EXCEPT !.conflicts = SegmentConflicts(segments, i, regions)]]

\* With overflow checks detect_conflicts panics at the first sum that does
\* not fit.  seg_start + size is computed for every segment; a region's
\* start + size is range.end of its memory-map entry and always fits.
DetectConflictsPanics(segments, regions) ==
    \E i \in 1..Len(segments) :
        AddOverflows(segments[i].address, segments[i].size)

(***************************************************************************)
(* parser.rs: parse_rtt_info, symbol matching.  A string is the sequence   *)
(* of its characters; str::contains is the search for a contiguous         *)
(* subsequence.                                                            *)
(***************************************************************************)
SEGGER_RTT == <<"S", "E", "G", "G", "E", "R", "_", "R", "T", "T">>
_SEGGER_RTT == <<"_">> \o SEGGER_RTT

StrContains(name, pattern) ==
    \E k \in 0..(Len(name) - Len(pattern)) :
        SubSeq(name, k + 1, k + Len(pattern)) = pattern

IsRttSymbolName(name) ==
    name = _SEGGER_RTT \/ name = SEGGER_RTT \/ StrContains(name, _SEGGER_RTT)

\* Index of the first symbol, from index i on, whose name decodes and
\* matches; 0 when there is none.
RECURSIVE LastRttSymbol(_, _)
LastRttSymbol(syms, i) ==
    IF i > Len(syms) THEN 0
    ELSE LET later == LastRttSymbol(syms, i + 1)
         IN  IF later # 0 THEN later
             ELSE IF syms[i].name.some /\ IsRttSymbolName(syms[i].name.value)
                  THEN i
                  ELSE 0

RECURSIVE FirstRttSymbol(_, _)
FirstRttSymbol(syms, i) ==
    IF i > Len(syms) THEN 0
    ELSE IF syms[i].name.some /\ IsRttSymbolName(syms[i].name.value)
         THEN i
         ELSE FirstRttSymbol(syms, i + 1)

(***************************************************************************)
(* parser.rs: parse_rtt_info, the search for the bytes behind the symbol.  *)
(* The first section whose address range holds the symbol's address ends   *)
(* the search, whether or not its data can be read.                        *)
(***************************************************************************)
SectionHolds(section, address) ==
    /\ address >= section.address
    /\ address < WrappingAdd(section.address, section.size)

RECURSIVE FindRttData(_, _)
FindRttData(secs, address) ==
    IF secs = <<>> THEN None
    ELSE IF SectionHolds(Head(secs), address)
         THEN LET section_data == Head(secs).data
                  offset == address - Head(secs).address
              IN  IF section_data.some /\ offset < Len(section_data.value)
                  THEN Some(SubSeq(section_data.value, offset + 1,
                                   Len(section_data.value)))
                  ELSE None
         ELSE FindRttData(Tail(secs), address)

\* With overflow checks section_addr + section_size panics when it does
\* not fit; the sum is computed for the sections the search reaches whose
\* address is not above the symbol's.
RECURSIVE FindRttDataPanics(_, _)
FindRttDataPanics(secs, address) ==
    IF secs = <<>> THEN FALSE
    ELSE IF address >= Head(secs).address
            /\ AddOverflows(Head(secs).address, Head(secs).size)
         THEN TRUE
         ELSE IF SectionHolds(Head(secs), address)
              THEN FALSE
              ELSE FindRttDataPanics(Tail(secs), address)

(***************************************************************************)
(* parser.rs: decode_rtt_control_block.  data is the byte slice (bytes are *)
(* indexed from 0 in the source, from 1 here).  A u32 is an integer; a u64 *)
(* is the pair of its high and low 32-bit halves.                          *)
(***************************************************************************)
U64(hi, lo) == [hi |-> hi, lo |-> lo]
U64Zero == U64(0, 0)

u32_from_le_bytes(b) == b[1] + 256 * b[2] + 65536 * b[3] + 16777216 * b[4]
u32_from_be_bytes(b) == b[4] + 256 * b[3] + 65536 * b[2] + 16777216 * b[1]

u64_from_le_bytes(b) ==
    U64(u32_from_le_bytes(SubSeq(b, 5, 8)), u32_from_le_bytes(SubSeq(b, 1, 4)))
u64_from_be_bytes(b) ==
    U64(u32_from_be_bytes(SubSeq(b, 1, 4)), u32_from_be_bytes(SubSeq(b, 5, 8)))

read_u32(data, endian, offset) ==
    IF offset + 4 > Len(data) THEN None
    ELSE LET bytes == SubSeq(data, offset + 1, offset + 4)
         IN  Some(IF endian = "Little" THEN u32_from_le_bytes(bytes)
                  ELSE u32_from_be_bytes(bytes))

read_ptr(data, ptr_size, endian, offset) ==
    IF offset + ptr_size > Len(data) THEN None
    ELSE IF ptr_size = 4
         THEN LET bytes == SubSeq(data, offset + 1, offset + 4)
              IN  Some(U64(0, IF endian = "Little" THEN u32_from_le_bytes(bytes)
                              ELSE u32_from_be_bytes(bytes)))
         ELSE LET bytes == SubSeq(data, offset + 1, offset + 8)
              IN  Some(IF endian = "Little" THEN u64_from_le_bytes(bytes)
                       ELSE u64_from_be_bytes(bytes))

MaxDecodedBuffers == 16

Min_Unclamped(a, b) == a

Min(a, b) == IF a <= b THEN a ELSE b

buffer_desc_size_NoFlags(ptr_size) == 2 * ptr_size + 12

buffer_desc_size(ptr_size) == 2 * ptr_size + 16

BufferName_FirstSlot(direction, i) == [direction |-> direction, index |-> 0]

\* format!("Up {}", i) and format!("Down {}", i).
BufferName(direction, i) == [direction |-> direction, index |-> i]

SlotOutside_Never(data, ptr_size, offset) == FALSE

\* `if offset + buffer_desc_size > data.len() { break; }`
SlotOutside(data, ptr_size, offset) ==
    offset + buffer_desc_size(ptr_size) > Len(data)

\* One of the two descriptor loops, from slot i on: `for i in 0..count`
\* with its break and its filter.
RECURSIVE DecodeBuffers(_, _, _, _, _, _, _)
DecodeBuffers(data, ptr_size, endian, direction, base, count, i) ==
    IF i >= count THEN <<>>
    ELSE LET offset == base + i * buffer_desc_size(ptr_size)
         IN  IF SlotOutside(data, ptr_size, offset)
             THEN <<>>
             ELSE LET buffer_addr == read_ptr(data, ptr_size, endian,
                                              offset + ptr_size)
                      buffer_size == read_u32(data, endian, offset + 2 * ptr_size)
                      rest == DecodeBuffers(data, ptr_size, endian, direction,
                                            base, count, i + 1)
                  IN  IF /\ buffer_addr.some
                         /\ buffer_size.some
                         /\ buffer_addr.value # U64Zero
                         /\ buffer_size.value > 0
                      THEN <<[name           |-> BufferName(direction, i),
                              buffer_address |-> buffer_addr.value,
                              size           |-> buffer_size.value]>> \o rest
                      ELSE rest

down_buffers_offset_Clamped(data, ptr_size, max_up_count) ==
    24 + Min(max_up_count, MaxDecodedBuffers) * buffer_desc_size(ptr_size)

\* up_buffers_offset + max_up_count * buffer_desc_size.  usize holds the
\* exact product; a count above the length of the data puts the offset
\* beyond the data whatever its exact value, and is kept there so that the
\* product stays small.
down_buffers_offset(data, ptr_size, max_up_count) ==
    24 + (IF max_up_count > Len(data)
          THEN Len(data) + 1
          ELSE max_up_count * buffer_desc_size(ptr_size))

\* The offsets of the bytes the closures read_u32 and read_ptr index.
ReadOffsets(data, offset, width) ==
    IF offset + width > Len(data) THEN {}
    ELSE offset..(offset + width - 1)

\* The offsets of the bytes one descriptor loop indexes, from slot i on.
RECURSIVE DecodeReads(_, _, _, _, _)
DecodeReads(data, ptr_size, base, count, i) ==
    IF i >= count \/ SlotOutside(data, ptr_size,
                                 base + i * buffer_desc_size(ptr_size))
    THEN {}
    ELSE ReadOffsets(data, base + i * buffer_desc_size(ptr_size) + ptr_size,
                     ptr_size)
         \cup ReadOffsets(data,
                          base + i * buffer_desc_size(ptr_size) + 2 * ptr_size,
                          4)
         \cup DecodeReads(data, ptr_size, base, count, i + 1)

\* The offsets of all bytes decode_rtt_control_block indexes.
decode_rtt_control_block_reads(data, ptr_size, endian) ==
    IF Len(data) < 24 THEN {}
    ELSE ReadOffsets(data, 16, 4) \cup ReadOffsets(data, 20, 4)
         \cup DecodeReads(data, ptr_size, 24,
                          Min(read_u32(data, endian, 16).value,
                              MaxDecodedBuffers), 0)
         \cup DecodeReads(data, ptr_size,
                          down_buffers_offset(data, ptr_size,
                                              read_u32(data, endian, 16).value),
                          Min(read_u32(data, endian, 20).value,
                              MaxDecodedBuffers), 0)

NoBlock ==
    [max_up |-> None, max_down |-> None, up_buffers |-> <<>>,
     down_buffers |-> <<>>]

decode_rtt_control_block_Short20(data, ptr_size, endian) ==
    IF Len(data) < 20 THEN NoBlock
    ELSE [NoBlock EXCEPT !.max_up = read_u32(data, endian, 16),
                         !.max_down = read_u32(data, endian, 20)]

decode_rtt_control_block(data, ptr_size, endian) ==
    IF Len(data) < 24 THEN NoBlock
    ELSE LET max_up == read_u32(data, endian, 16)
             max_down == read_u32(data, endian, 20)
         IN  IF max_up.some /\ max_down.some
             THEN [max_up       |-> max_up,
                   max_down     |-> max_down,
                   up_buffers   |->
                       DecodeBuffers(data, ptr_size, endian, "Up", 24,
                                     Min(max_up.value, MaxDecodedBuffers), 0),
                   down_buffers |->
                       DecodeBuffers(data, ptr_size, endian, "Down",
                                     down_buffers_offset(data, ptr_size,
                                                         max_up.value),
                                     Min(max_down.value, MaxDecodedBuffers), 0)]
             ELSE [NoBlock EXCEPT !.max_up = max_up, !.max_down = max_down]

(***************************************************************************)
(* parser.rs: parse_rtt_info, the RttInfo it returns on a readable,        *)
(* well-formed file when no sum panics.                                    *)
(***************************************************************************)
RttAbsent_PresentEmpty ==
    [present |-> TRUE, symbol_name |-> None, address |-> None, size |-> None,
     max_up_buffers |-> None, max_down_buffers |-> None,
     up_buffers |-> <<>>, down_buffers |-> <<>>]

RttAbsent ==
    [present |-> FALSE, symbol_name |-> None, address |-> None, size |-> None,
     max_up_buffers |-> None, max_down_buffers |-> None,
     up_buffers |-> <<>>, down_buffers |-> <<>>]

parse_rtt_info(file_is_64, endian, syms, secs) ==
    LET ptr_size == IF file_is_64 THEN 8 ELSE 4
        found == FirstRttSymbol(syms, 1)
    IN  IF found = 0 THEN RttAbsent
        ELSE LET symbol == syms[found]
                 rtt_data == FindRttData(secs, symbol.address)
                 block == IF rtt_data.some
                          THEN decode_rtt_control_block(rtt_data.value,
                                                        ptr_size, endian)
                          ELSE NoBlock
             IN  [present          |-> TRUE,
                  symbol_name      |-> Some(symbol.name.value),
                  address          |-> Some(symbol.address),
                  size             |-> IF symbol.size > 0 THEN Some(symbol.size)
                                       ELSE None,
                  max_up_buffers   |-> block.max_up,
                  max_down_buffers |-> block.max_down,
                  up_buffers       |-> block.up_buffers,
                  down_buffers     |-> block.down_buffers]

ParseRttInfoPanics(syms, secs) ==
    LET found == FirstRttSymbol(syms, 1)
    IN  found # 0 /\ FindRttDataPanics(secs, syms[found].address)

NoRttResult == [status |-> "none", info |-> RttAbsent]

ParseRttInfo ==
    /\ rttResult.status = "none"
    /\ \E overflow_checks \in BOOLEAN :
           rttResult' =
               IF ~FileParses(container, debug_info)
               THEN [status |-> "Err", info |-> RttAbsent]
               ELSE IF overflow_checks /\ ParseRttInfoPanics(symbols, sections)
                    THEN [status |-> "panic", info |-> RttAbsent]
                    ELSE [status |-> "Ok",
                          info |-> parse_rtt_info(is_64, endianness, symbols,
                                                  sections)]
    /\ UNCHANGED <<viewVars, fileVars, memory_regions, segResult, queryVars, dwarfVars,
                   scanVars>>

(***************************************************************************)
(* Inputs.                                                                 *)
(***************************************************************************)
SectionNames == <<".text", ".data", ".bss", ".rodata", ".heap", ".stack">>
RegionNames == <<"BANK0", "BANK1", "BANK2", "BANK3", "BANK4">>

SectionAddresses == (0..MaxLowAddr) \cup {U64Max}

\* sh_flags and file range of a code section, a zero-initialised data
\* section and a non-allocated (debug) section.
SectionKinds ==
    { [sh_flags |-> 6, file_range |-> Some(1)],
      [sh_flags |-> 3, file_range |-> None],
      [sh_flags |-> 0, file_range |-> Some(1)] }

SectionHeaders(n) ==
    [1..n -> [address : SectionAddresses, size : 0..MaxSize,
              kind : SectionKinds]]

\* Headers of sections that all pass the filter of parse_elf_segments.
LoadedSectionHeaders(n) ==
    [1..n -> [address : SectionAddresses \ {0}, size : 1..MaxSize,
              kind : {k \in SectionKinds : k.sh_flags = 6}]]

MakeSections(h) ==
    [i \in 1..Len(h) |->
        [name       |-> SectionNames[i],
         address    |-> h[i].address,
         size       |-> h[i].size,
         sh_flags   |-> h[i].kind.sh_flags,
         file_range |-> h[i].kind.file_range]]

MapEntries(n) ==
    [1..n -> { e \in [start : 0..MaxMapAddr, end : 0..MaxMapAddr,
                      tag : {"Ram", "Nvm"}] : e.start <= e.end }]

MakeMemoryMap(m) ==
    [i \in 1..Len(m) |->
        [start |-> m[i].start, end |-> m[i].end, tag |-> m[i].tag,
         name |-> Some(RegionNames[i]), name_has_ram |-> FALSE]]

NoResult == [status |-> "none", segments |-> <<>>]

(***************************************************************************)
(* parser.rs: parse_elf_symbols and parse_defmt_info.  Section and symbol  *)
(* names are sequences of characters here, so that the prefix and          *)
(* substring tests are computed.                                           *)
(***************************************************************************)
SymbolKept(symbol) ==
    symbol.name.some /\ symbol.address > 0 /\ symbol.name.value # <<>>

RECURSIVE CollectSymbols(_)
CollectSymbols(syms) ==
    IF syms = <<>> THEN <<>>
    ELSE IF SymbolKept(Head(syms))
         THEN <<[name    |-> Head(syms).name.value,
                 address |-> Head(syms).address,
                 size    |-> Head(syms).size]>> \o CollectSymbols(Tail(syms))
         ELSE CollectSymbols(Tail(syms))

parse_elf_symbols(syms) == SortByAddress(CollectSymbols(syms))

ParseElfSymbols ==
    /\ symResult.status = "none"
    /\ symResult' =
           IF ~FileParses(container, debug_info)
           THEN [status |-> "Err", value |-> <<>>]
           ELSE [status |-> "Ok", value |-> parse_elf_symbols(symbols)]
    /\ UNCHANGED <<viewVars, fileVars, memory_regions, segResult, queryVars, rttResult,
                   dwarfVars, defmtResult>>

defmt == <<"d", "e", "f", "m", "t">>

starts_with(name, prefix) ==
    Len(name) >= Len(prefix) /\ SubSeq(name, 1, Len(prefix)) = prefix

IsDefmtSectionName(name) ==
    starts_with(name, <<".">> \o defmt) \/ StrContains(name, defmt)

RECURSIVE CollectDefmtSections(_)
CollectDefmtSections(secs) ==
    IF secs = <<>> THEN <<>>
    ELSE IF IsDefmtSectionName(Head(secs).name) /\ Head(secs).size > 0
         THEN <<[name |-> Head(secs).name, size |-> Head(secs).size]>>
                  \o CollectDefmtSections(Tail(secs))
         ELSE CollectDefmtSections(Tail(secs))

parse_defmt_info(secs) ==
    LET defmt_sections == CollectDefmtSections(secs)
    IN  [present |-> defmt_sections # <<>>, sections |-> defmt_sections]

ParseDefmtInfo ==
    /\ defmtResult.status = "none"
    /\ defmtResult' =
           IF ~FileParses(container, debug_info)
           THEN [status |-> "Err", value |-> <<>>]
           ELSE [status |-> "Ok", value |-> parse_defmt_info(sections)]
    /\ UNCHANGED <<viewVars, fileVars, memory_regions, segResult, queryVars, rttResult,
                   dwarfVars, symResult>>

\* DwarfInfo of a file without compile units.
NoDwarfInfo == [present |-> FALSE, compile_units |-> <<>>, total_symbols |-> 0]

(***************************************************************************)
(* parser.rs: parse_elf_segments.  The value it returns on a readable,     *)
(* well-formed file when no sum panics, and the step that runs it.         *)
(***************************************************************************)
parse_elf_segments_AlwaysDetect(secs, regions) ==
    detect_conflicts(SortByAddress(CollectSegments(secs)),
                     IF regions.some THEN regions.value ELSE <<>>)

parse_elf_segments(secs, regions) ==
    LET segments == SortByAddress(CollectSegments(secs))
    IN  IF regions.some
        THEN detect_conflicts(segments, regions.value)
        ELSE segments

ParseElfSegmentsPanics(secs, regions) ==
    /\ regions.some
    /\ DetectConflictsPanics(SortByAddress(CollectSegments(secs)), regions.value)

ParseElfSegments ==
    /\ segResult.status = "none"
    /\ \E overflow_checks \in BOOLEAN :
           segResult' =
               IF ~FileParses(container, debug_info)
               THEN [status |-> "Err", segments |-> <<>>]
               ELSE IF overflow_checks
                       /\ ParseElfSegmentsPanics(sections, memory_regions)
                    THEN [status |-> "panic", segments |-> <<>>]
                    ELSE [status |-> "Ok",
                          segments |-> parse_elf_segments(sections,
                                                          memory_regions)]
    /\ UNCHANGED <<viewVars, fileVars, memory_regions, queryVars, rttResult, dwarfVars,
                   scanVars>>

(***************************************************************************)
(* types.rs: one call of contains and of overlaps on the same arguments.   *)
(***************************************************************************)
NoQueryResult == [status |-> "none", contains |-> FALSE, overlaps |-> FALSE]

RangeQuery ==
    /\ query.some
    /\ queryResult.status = "none"
    /\ \E overflow_checks \in BOOLEAN :
           LET q == query.value
           IN  queryResult' =
                   IF overflow_checks
                      /\ RangeQueryPanics(q.region, q.address, q.size)
                   THEN [NoQueryResult EXCEPT !.status = "panic"]
                   ELSE [status   |-> "Ok",
                         contains |-> contains(q.region, q.address, q.size),
                         overlaps |-> overlaps(q.region, q.address, q.size)]
    /\ UNCHANGED <<viewVars, fileVars, memory_regions, segResult, query, rttResult,
                   dwarfVars, scanVars>>

(***************************************************************************)
(* Inputs of the RTT decoder: control-block images in the layout the       *)
(* decoder documents (acID[16], MaxNumUpBuffers, MaxNumDownBuffers, aUp[], *)
(* aDown[]; a descriptor is sName, pBuffer, SizeOfBuffer, WrOff, RdOff,    *)
(* Flags), encoded for a pointer size and a byte order.  Every byte is     *)
(* below 128, so every u32 read from an image is below 2^31.               *)
(***************************************************************************)
Reverse(seq) == [k \in 1..Len(seq) |-> seq[Len(seq) + 1 - k]]

u32_to_bytes(endian, v) ==
    LET le == <<v % 256, (v \div 256) % 256, (v \div 65536) % 256,
                (v \div 16777216) % 256>>
    IN  IF endian = "Little" THEN le ELSE Reverse(le)

ptr_to_bytes(ptr_size, endian, v) ==
    IF ptr_size = 4 THEN u32_to_bytes(endian, v.lo)
    ELSE IF endian = "Little"
         THEN u32_to_bytes(endian, v.lo) \o u32_to_bytes(endian, v.hi)
         ELSE u32_to_bytes(endian, v.hi) \o u32_to_bytes(endian, v.lo)

\* Slot i of aUp or aDown: buffer 0x2000_0000 + 0x100 * i of 1024 + i bytes
\* (up), buffer 0x2001_0000 + 0x100 * i of 16 + i bytes (down); 64-bit
\* images put the buffers above 4 GiB.  Slot zero_addr has a null buffer,
\* slot zero_size an empty one.
SlotAddress(direction, ptr_size, i) ==
    U64(IF ptr_size = 8 THEN 1 ELSE 0,
        536870912 + (IF direction = "Up" THEN 0 ELSE 65536) + 256 * i)

SlotSize(direction, i) == (IF direction = "Up" THEN 1024 ELSE 16) + i

DescriptorBytes(ptr_size, endian, direction, i, zero_addr, zero_size) ==
    ptr_to_bytes(ptr_size, endian, U64(0, 134217984 + i))
    \o ptr_to_bytes(ptr_size, endian,
                    IF i = zero_addr THEN U64Zero
                    ELSE SlotAddress(direction, ptr_size, i))
    \o u32_to_bytes(endian, IF i = zero_size THEN 0 ELSE SlotSize(direction, i))
    \o u32_to_bytes(endian, 5)
    \o u32_to_bytes(endian, 3)
    \o u32_to_bytes(endian, 2)

RECURSIVE DescriptorArray(_, _, _, _, _, _)
DescriptorArray(ptr_size, endian, direction, n, zero_addr, zero_size) ==
    IF n = 0 THEN <<>>
    ELSE DescriptorArray(ptr_size, endian, direction, n - 1, zero_addr, zero_size)
         \o DescriptorBytes(ptr_size, endian, direction, n - 1, zero_addr,
                            zero_size)

acID == <<83, 69, 71, 71, 69, 82, 32, 82, 84, 84, 0, 0, 0, 0, 0, 0>>

\* An image declaring max_up and max_down buffers and holding n_up and
\* n_down descriptors.
ControlBlock(ptr_size, endian, max_up, max_down, n_up, n_down, zero_addr, zero_size) ==
    acID
    \o u32_to_bytes(endian, max_up)
    \o u32_to_bytes(endian, max_down)
    \o DescriptorArray(ptr_size, endian, "Up", n_up, zero_addr, zero_size)
    \o DescriptorArray(ptr_size, endian, "Down", n_down, zero_addr, zero_size)

NoSlot == MaxDecodedBuffers + 2
UpCounts == (0..MaxBuffers) \cup {MaxDecodedBuffers, MaxDecodedBuffers + 1}
DownCounts == (0..MaxBuffers) \cup {MaxDecodedBuffers + 1}
ZeroSlotChoices == (0..(MaxBuffers - 1)) \cup {NoSlot}
\* A count field read from four bytes 0x7F.
CorruptCount == u32_from_le_bytes(<<127, 127, 127, 127>>)

\* Lengths at which an image is cut: nothing, one byte short of the
\* counts, and up to MaxCut bytes short of its end.
Truncations(image) ==
    {0, 23} \cup {Len(image) - c : c \in 0..Min(MaxCut, Len(image))}

Images(ptr_size, endian) ==
    { ControlBlock(ptr_size, endian, up, down, up, down, za, zs) :
          up \in UpCounts, down \in DownCounts,
          za \in ZeroSlotChoices, zs \in ZeroSlotChoices }
    \cup { ControlBlock(ptr_size, endian, c[1], c[2], 1, 1, NoSlot, NoSlot) :
               c \in {<<CorruptCount, 1>>, <<1, CorruptCount>>} }

\* The section holding the control block.
RttSection(address, bytes) ==
    [name       |-> ".data",
     address    |-> address,
     size       |-> Len(bytes),
     sh_flags   |-> 3,
     file_range |-> Some(Len(bytes)),
     data       |-> Some(bytes)]

main == <<"m", "a", "i", "n">>

SymbolNames ==
    { Some(_SEGGER_RTT), Some(SEGGER_RTT), Some(<<"m", "y">> \o _SEGGER_RTT),
      Some(<<"x">> \o SEGGER_RTT), Some(main), None }

NoRttInput ==
    /\ is_64 = FALSE
    /\ endianness = "Little"
    /\ symbols = <<>>
    /\ rttResult = NoRttResult

\* The memory map of the one target of SpecSeg: unnamed flash below a
\* generic entry named "SRAM".
DefaultMemoryMap ==
    <<[start |-> 0, end |-> 2, tag |-> "Nvm", name |-> None,
       name_has_ram |-> FALSE],
      [start |-> 2, end |-> U64Max, tag |-> "Generic", name |-> Some("SRAM"),
       name_has_ram |-> TRUE]>>

(***************************************************************************)
(* components/memory_view.rs: MemoryView.  The fields the handlers write,  *)
(* and the handlers.  A table of symbols stands for symbols_table, the id  *)
(* of a DwarfSymbol for selected_dwarf_symbol; status is "panic" once a    *)
(* handler has panicked.                                                   *)
(***************************************************************************)
NoTarget == "(No target)"

NoView ==
    [status |-> "none", segments |-> <<>>, memory_regions |-> <<>>,
     symbols |-> <<>>, defmt_info |-> parse_defmt_info(<<>>),
     rtt_info |-> RttAbsent, selected_segment |-> None,
     selected_dwarf_symbol |-> None, symbols_table |-> None]

NoEvent == [seq |-> 0, handler |-> "new", target |-> NoTarget]

\* MemoryView::new: the parse results it is handed, nothing selected.
MemoryViewNew(segments, regions, syms, defmt_info, rtt_info) ==
    [status |-> "running", segments |-> segments, memory_regions |-> regions,
     symbols |-> syms, defmt_info |-> defmt_info, rtt_info |-> rtt_info,
     selected_segment |-> None, selected_dwarf_symbol |-> None,
     symbols_table |-> None]

on_dwarf_symbol_select(v, symbol) ==
    [v EXCEPT !.selected_segment = None,
              !.symbols_table = None,
              !.selected_dwarf_symbol = Some(symbol)]

\* The symbols on_segment_click hands to the table: those with
\* segment_start <= address < segment_end.
FilteredSymbols(syms, segment) ==
    SelectSeq(syms,
              LAMBDA s : /\ s.address >= segment.address
                         /\ s.address < WrappingAdd(segment.address,
                                                    segment.size))

on_segment_click(v, idx, overflow_checks) ==
    IF v.selected_segment = Some(idx)
    THEN [v EXCEPT !.selected_segment = None, !.symbols_table = None]
    ELSE IF idx >= Len(v.segments)
         THEN [v EXCEPT !.selected_segment = Some(idx)]
         ELSE IF overflow_checks
                 /\ AddOverflows(v.segments[idx + 1].address,
                                 v.segments[idx + 1].size)
              THEN [v EXCEPT !.selected_segment = Some(idx),
                             !.status = "panic"]
              ELSE [v EXCEPT !.selected_segment = Some(idx),
                             !.symbols_table =
                                 Some(FilteredSymbols(v.symbols,
                                                      v.segments[idx + 1]))]

\* `for segment in &mut self.segments { segment.conflicts.clear(); }`
ClearConflicts(segments) ==
    [i \in 1..Len(segments) |-> [segments[i] EXCEPT !.conflicts = <<>>]]

NoTargetChosen_KeepsSelection(v, c, secs) ==
    [v EXCEPT !.memory_regions = <<>>,
              !.segments = ClearConflicts(IF FileParses(c, <<>>)
                                          THEN parse_elf_segments(secs, None)
                                          ELSE v.segments)]

\* on_target_change, the branch of "(No target)".
NoTargetChosen(v, c, secs) ==
    [v EXCEPT !.memory_regions = <<>>,
              !.segments = ClearConflicts(IF FileParses(c, <<>>)
                                          THEN parse_elf_segments(secs, None)
                                          ELSE v.segments),
              !.selected_segment = None,
              !.symbols_table = None]

\* on_target_change, the reload of the defmt and RTT info behind a
\* successful re-parse of the segments.
ReloadInfo(v, secs, syms, file_is_64, endian, overflow_checks) ==
    IF overflow_checks /\ ParseRttInfoPanics(syms, secs)
    THEN [v EXCEPT !.defmt_info = parse_defmt_info(secs), !.status = "panic"]
    ELSE [v EXCEPT !.defmt_info = parse_defmt_info(secs),
                   !.rtt_info = parse_rtt_info(file_is_64, endian, syms, secs)]

TargetChosen_RegionsFirst(v, layout, c, secs, syms, file_is_64, endian, overflow_checks) ==
    IF ~layout.ok THEN v
    ELSE IF ~FileParses(c, <<>>)
         THEN [v EXCEPT !.memory_regions = layout.regions]
         ELSE IF overflow_checks
                 /\ ParseElfSegmentsPanics(secs, Some(layout.regions))
              THEN [v EXCEPT !.status = "panic"]
              ELSE ReloadInfo([v EXCEPT !.memory_regions = layout.regions,
                                        !.segments =
                                            parse_elf_segments(
                                                secs, Some(layout.regions)),
                                        !.selected_segment = None,
                                        !.symbols_table = None],
                              secs, syms, file_is_64, endian, overflow_checks)

\* on_target_change, the branch of a named target, from the outcome of
\* load_memory_layout_from_probe_rs.
TargetChosen(v, layout, c, secs, syms, file_is_64, endian, overflow_checks) ==
    IF ~layout.ok \/ ~FileParses(c, <<>>) THEN v
    ELSE IF overflow_checks
            /\ ParseElfSegmentsPanics(secs, Some(layout.regions))
         THEN [v EXCEPT !.status = "panic"]
         ELSE ReloadInfo([v EXCEPT !.memory_regions = layout.regions,
                                   !.segments =
                                       parse_elf_segments(
                                           secs, Some(layout.regions)),
                                   !.selected_segment = None,
                                   !.symbols_table = None],
                         secs, syms, file_is_64, endian, overflow_checks)

\* get_target_by_name fails on a name probe-rs does not know; found is
\* the memory map of the target otherwise.
LayoutOf(found) ==
    IF found.some THEN load_memory_layout_from_probe_rs(found.value)
    ELSE [ok |-> FALSE, regions |-> <<>>]

on_target_change(v, target, found, c, secs, syms, file_is_64, endian, overflow_checks) ==
    IF target = NoTarget THEN NoTargetChosen(v, c, secs)
    ELSE TargetChosen(v, LayoutOf(found), c, secs, syms, file_is_64, endian,
                      overflow_checks)

\* render: `self.selected_segment.and_then(|idx| self.segments.get(idx))
\* .unwrap()` when symbols_table is set.
RenderPanics(v) ==
    /\ v.symbols_table.some
    /\ \/ ~v.selected_segment.some
       \/ v.selected_segment.value >= Len(v.segments)

(***************************************************************************)
(* Specifications.  SpecSeg: any section table, no target or one fixed     *)
(* target.  SpecConf: loaded sections against any memory map.              *)
(***************************************************************************)
SegIdleButSections ==
    /\ memory_regions = None
    /\ segResult = NoResult

SegIdle ==
    /\ container = "elf"
    /\ sections = <<>>
    /\ SegIdleButSections

QueryIdle ==
    /\ query = None
    /\ queryResult = NoQueryResult

NoDwarfResult == [status |-> "none", info |-> NoDwarfInfo]
NoScanResult == [status |-> "none", value |-> <<>>]

DwarfIdle ==
    /\ dwarfResult = NoDwarfResult
    /\ id_counter = 0
    /\ builds = <<>>

\* No scan has run and no window is open.
ScanIdle ==
    /\ symResult = NoScanResult
    /\ defmtResult = NoScanResult
    /\ view = NoView
    /\ event = NoEvent

\* No debug sections, and nothing but the operation under study has run.
OthersIdle ==
    /\ debug_info = <<>>
    /\ DwarfIdle
    /\ ScanIdle

InitSeg ==
    /\ OthersIdle
    /\ QueryIdle
    /\ NoRttInput
    /\ segResult = NoResult
    /\ \/ /\ container \in {"unreadable", "malformed"}
          /\ sections = <<>>
          /\ memory_regions = None
       \/ /\ container = "elf"
          /\ \E n \in 0..MaxSections : \E h \in SectionHeaders(n) :
                 sections = MakeSections(h)
          /\ memory_regions \in
                 {None,
                  Some(load_memory_layout_from_probe_rs(DefaultMemoryMap).regions)}

InitConf ==
    /\ OthersIdle
    /\ QueryIdle
    /\ NoRttInput
    /\ segResult = NoResult
    /\ container = "elf"
    /\ \E n \in 0..MaxSections : \E h \in LoadedSectionHeaders(n) :
           sections = MakeSections(h)
    /\ \E n \in 1..MaxMapEntries : \E m \in MapEntries(n) :
           memory_regions =
               Some(load_memory_layout_from_probe_rs(MakeMemoryMap(m)).regions)

\* SpecRange: contains and overlaps on regions and ranges whose bounds are
\* small or near the top of the (scaled) u64 domain.
RangeValues == (0..MaxRangeAddr) \cup {U64Max - 1, U64Max}

InitRange ==
    /\ OthersIdle
    /\ SegIdle
    /\ NoRttInput
    /\ queryResult = NoQueryResult
    /\ \E start \in RangeValues, rsize \in RangeValues,
          address \in RangeValues, size \in RangeValues :
           query = Some([region  |-> [name |-> "FLASH", start |-> start,
                                      size |-> rsize, kind |-> "Flash"],
                         address |-> address,
                         size    |-> size])

\* SpecRtt: every control-block image, cut at every truncation length,
\* behind one _SEGGER_RTT symbol at the start of its section.
InitRtt ==
    /\ OthersIdle
    /\ SegIdleButSections
    /\ QueryIdle
    /\ container = "elf"
    /\ rttResult = NoRttResult
    /\ is_64 \in BOOLEAN
    /\ endianness \in {"Little", "Big"}
    /\ \E size \in {0, 24} :
           symbols = <<[name |-> Some(_SEGGER_RTT), address |-> 256,
                        size |-> size]>>
    /\ \E image \in Images(IF is_64 THEN 8 ELSE 4, endianness) :
       \E avail \in Truncations(image) :
           sections = <<RttSection(256, SubSeq(image, 1, avail))>>

\* SpecRttSym: every symbol table of up to MaxSymbols symbols over one image
\* with one up and one down buffer; the section lies low in the address
\* space or ends beyond its top, and a symbol lies at the start of the
\* section (with the size of the block), 8 bytes before its end or outside
\* it (with size 0).
InitRttSym ==
    /\ OthersIdle
    /\ SegIdleButSections
    /\ QueryIdle
    /\ rttResult = NoRttResult
    /\ \/ /\ container \in {"unreadable", "malformed"}
          /\ is_64 = FALSE
          /\ endianness = "Little"
          /\ symbols = <<>>
          /\ sections = <<>>
       \/ /\ container = "elf"
          /\ is_64 \in BOOLEAN
          /\ endianness \in {"Little", "Big"}
          /\ LET image == ControlBlock(IF is_64 THEN 8 ELSE 4, endianness,
                                       1, 1, 1, 1, NoSlot, NoSlot)
             IN  \E base \in {256, U64Max - 7} :
                 \E n \in 0..MaxSymbols :
                 \E t \in [1..n -> [name : SymbolNames,
                                    address : {0, base, base + Len(image) - 8}]] :
                     /\ sections = <<RttSection(base, image)>>
                     /\ symbols =
                            [i \in 1..n |->
                                [name    |-> t[i].name,
                                 address |-> t[i].address,
                                 size    |-> IF t[i].address = base
                                             THEN Len(image) ELSE 0]]

(***************************************************************************)
(* parser.rs: the DWARF tree builder.  Strings are sequences of bytes, as  *)
(* String::cmp compares them.  A debugging information entry is a record   *)
(* [tag, attrs, children, fault]: attrs are the attributes gimli parses,   *)
(* in entry order, and fault tells that parsing fails after them, so that  *)
(* entry.attrs() yields them and then an error, entry.attr_value() finds   *)
(* them and otherwise errs, and moving past the entry fails.  An           *)
(* attribute is [name, value] and a value [kind, v], kind naming the       *)
(* gimli::AttributeValue variant.                                          *)
(***************************************************************************)
StrLess(a, b) ==
    \E k \in 1..(Len(a) + 1) :
        /\ \A j \in 1..(k - 1) : j <= Len(b) /\ a[j] = b[j]
        /\ k <= Len(b)
        /\ (k <= Len(a) => a[k] < b[k])

\* Ordering of a.cmp(&b) on strings.
StrCmp(a, b) ==
    IF a = b THEN "Equal" ELSE IF StrLess(a, b) THEN "Less" ELSE "Greater"

UnknownName == <<60, 117, 110, 107, 110, 111, 119, 110, 62>>
BlockName == <<60, 98, 108, 111, 99, 107, 62>>
InlinedName == <<60, 105, 110, 108, 105, 110, 101, 100, 62>>
AnonymousName == <<60, 97, 110, 111, 110, 121, 109, 111, 117, 115, 62>>

\* gimli tag -> DwarfTag of the kept tags (the match of parse_die_recursive).
KeptTags ==
    [DW_TAG_subprogram         |-> "Subprogram",
     DW_TAG_variable           |-> "Variable",
     DW_TAG_formal_parameter   |-> "FormalParameter",
     DW_TAG_lexical_block      |-> "LexicalBlock",
     DW_TAG_inlined_subroutine |-> "InlinedSubroutine",
     DW_TAG_structure_type     |-> "StructureType",
     DW_TAG_union_type         |-> "UnionType",
     DW_TAG_enumeration_type   |-> "EnumerationType",
     DW_TAG_member             |-> "Member",
     DW_TAG_typedef            |-> "Typedef",
     DW_TAG_namespace          |-> "Namespace",
     DW_TAG_enumerator         |-> "Member"]

IsKeptTag_NoEnumerator(tag) == tag \in DOMAIN KeptTags \ {"DW_TAG_enumerator"}

IsKeptTag(tag) == tag \in DOMAIN KeptTags

\* entry.attr_value(attr_name).ok().flatten(): the value of the first
\* attribute of that name.
RECURSIVE attr_value(_, _)
attr_value(attrs, attr_name) ==
    IF attrs = <<>> THEN None
    ELSE IF Head(attrs).name = attr_name THEN Some(Head(attrs).value)
         ELSE attr_value(Tail(attrs), attr_name)

\* dwarf.attr_string(unit, attr).ok() and to_string_lossy().ok(): an inline
\* string, or a reference into .debug_str that resolves.
attr_string(value) ==
    IF value.kind = "String" THEN Some(value.v)
    ELSE IF value.kind = "DebugStrRef" THEN value.v.str
         ELSE None

get_string_attr(entry, attr_name) ==
    LET attr == attr_value(entry.attrs, attr_name)
    IN  IF attr.some THEN attr_string(attr.value) ELSE None

get_address_attr(entry, attr_name) ==
    LET attr == attr_value(entry.attrs, attr_name)
    IN  IF attr.some /\ attr.value.kind \in {"Addr", "Udata"}
        THEN Some(attr.value.v)
        ELSE None

WrappingSub(a, b) == (a - b) % U64Modulus

UnsignedDataKinds == {"Udata", "Data1", "Data2", "Data4", "Data8"}

get_size(entry) ==
    LET byte_size == attr_value(entry.attrs, "DW_AT_byte_size")
        low_pc == get_address_attr(entry, "DW_AT_low_pc")
        high_pc_attr == attr_value(entry.attrs, "DW_AT_high_pc")
    IN  IF byte_size.some /\ byte_size.value.kind \in UnsignedDataKinds
        THEN Some(byte_size.value.v)
        ELSE IF low_pc.some /\ high_pc_attr.some
             THEN IF high_pc_attr.value.kind = "Addr"
                  THEN Some(WrappingSub(high_pc_attr.value.v, low_pc.value))
                  ELSE IF high_pc_attr.value.kind \in UnsignedDataKinds
                       THEN Some(high_pc_attr.value.v)
                       ELSE None
             ELSE None

\* high_pc - low_pc does not fit when high_pc is an address below low_pc.
GetSizePanics(entry) ==
    LET byte_size == attr_value(entry.attrs, "DW_AT_byte_size")
        low_pc == get_address_attr(entry, "DW_AT_low_pc")
        high_pc_attr == attr_value(entry.attrs, "DW_AT_high_pc")
    IN  /\ ~(byte_size.some /\ byte_size.value.kind \in UnsignedDataKinds)
        /\ low_pc.some
        /\ high_pc_attr.some
        /\ high_pc_attr.value.kind = "Addr"
        /\ high_pc_attr.value.v < low_pc.value

\* The file table of the unit's line program: header.file(idx) and the
\* string of its path_name.  `as u32` keeps a line or column below 2^32,
\* which all lines and columns of the model are.
get_file_line_info(unit, entry) ==
    LET decl_file == attr_value(entry.attrs, "DW_AT_decl_file")
        decl_line == attr_value(entry.attrs, "DW_AT_decl_line")
        decl_column == attr_value(entry.attrs, "DW_AT_decl_column")
    IN  [file   |-> IF /\ decl_file.some
                       /\ decl_file.value.kind = "FileIndex"
                       /\ unit.line_program.some
                       /\ decl_file.value.v > 0
                       /\ decl_file.value.v \in DOMAIN unit.line_program.value
                    THEN attr_string(unit.line_program.value[decl_file.value.v])
                    ELSE None,
         line   |-> IF /\ decl_line.some
                       /\ decl_line.value.kind \in
                              {"Udata", "Data1", "Data2", "Data4"}
                    THEN Some(decl_line.value.v)
                    ELSE None,
         column |-> IF /\ decl_column.some
                       /\ decl_column.value.kind \in {"Udata", "Data1", "Data2"}
                    THEN Some(decl_column.value.v)
                    ELSE None]

\* A UnitRef carries its offset and the entry unit.entries_tree(offset)
\* finds there, if any.
get_type_name(entry) ==
    LET type_attr == attr_value(entry.attrs, "DW_AT_type")
    IN  IF /\ type_attr.some
           /\ type_attr.value.kind = "UnitRef"
           /\ type_attr.value.v.entry.some
        THEN get_string_attr(type_attr.value.v.entry.value, "DW_AT_name")
        ELSE None

\* addr2line::demangle on the names of the model: a legacy Rust symbol
\* with its hash, which both demanglers accept, and a C++ function.
MangledRust == <<95, 90, 78, 51, 102, 111, 111, 51, 98, 97, 114, 49, 55, 104, 48, 49, 50, 51, 52, 53, 54, 55, 56, 57, 97, 98, 99, 100, 101, 102, 69>>
MangledCpp == <<95, 90, 51, 98, 97, 122, 118>>

rustc_demangle(name) ==
    IF name = MangledRust THEN Some(<<102, 111, 111, 58, 58, 98, 97, 114>>) ELSE None

cpp_demangle(name) ==
    IF name = MangledRust THEN Some(<<102, 111, 111, 58, 58, 98, 97, 114, 58, 58, 104, 48, 49, 50, 51, 52, 53, 54, 55, 56, 57, 97, 98, 99, 100, 101, 102>>)
    ELSE IF name = MangledCpp THEN Some(<<98, 97, 122, 40, 41>>)
         ELSE None

addr2line_demangle(name, lang) ==
    IF lang = "DW_LANG_Rust" THEN rustc_demangle(name) ELSE cpp_demangle(name)

DemangleLanguages ==
    <<"DW_LANG_Rust", "DW_LANG_C_plus_plus", "DW_LANG_C_plus_plus_03",
      "DW_LANG_C_plus_plus_11", "DW_LANG_C_plus_plus_14">>

RECURSIVE TryDemangle(_, _)
TryDemangle(name, langs) ==
    IF langs = <<>> THEN name
    ELSE LET demangled == addr2line_demangle(name, Head(langs))
         IN  IF demangled.some THEN demangled.value
             ELSE TryDemangle(name, Tail(langs))

demangle_name(name) == TryDemangle(name, DemangleLanguages)

Placeholder(dwarf_tag) ==
    IF dwarf_tag = "LexicalBlock" THEN BlockName
    ELSE IF dwarf_tag = "InlinedSubroutine" THEN InlinedName
         ELSE AnonymousName

ResolveName_PlainFirst(entry, dwarf_tag) ==
    LET raw_name == get_string_attr(entry, "DW_AT_name")
        linkage_name == get_string_attr(entry, "DW_AT_linkage_name")
        chosen == IF raw_name.some THEN raw_name ELSE linkage_name
    IN  IF chosen.some THEN demangle_name(chosen.value)
        ELSE Placeholder(dwarf_tag)

\* linkage_name.or(raw_name).map(demangle_name).unwrap_or_else(...)
ResolveName(entry, dwarf_tag) ==
    LET raw_name == get_string_attr(entry, "DW_AT_name")
        linkage_name == get_string_attr(entry, "DW_AT_linkage_name")
        chosen == IF linkage_name.some THEN linkage_name ELSE raw_name
    IN  IF chosen.some THEN demangle_name(chosen.value)
        ELSE Placeholder(dwarf_tag)

(***************************************************************************)
(* parser.rs: format_attr_value.  A formatted value is modelled by its     *)
(* format string and its arguments; the fallback format!("{:?}", value)    *)
(* by "{:?}" and the value itself.                                         *)
(***************************************************************************)
Formatted(fmt, arg) == Some([fmt |-> fmt, arg |-> arg])

\* bytes.join(" ") of the {:02x} of the bytes, whole or cut after 8 bytes.
HexDump(prefix, bytes) ==
    IF Len(bytes) <= 16
    THEN Formatted(prefix \o "[{}]", bytes)
    ELSE Formatted(prefix \o "[{} ... ({} bytes)]",
                   <<SubSeq(bytes, 1, 8), Len(bytes)>>)

\* The variants printed as a prefix and the hexadecimal offset.
OffsetFormats ==
    [SecOffset           |-> "offset 0x{:x}",
     DebugInfoRef        |-> ".debug_info+0x{:x}",
     DebugInfoRefSup     |-> ".debug_info.sup+0x{:x}",
     DebugLineRef        |-> ".debug_line+0x{:x}",
     DebugLocListsBase   |-> ".debug_loclists+0x{:x}",
     DebugLocListsIndex  |-> "loclist[{}]",
     DebugMacinfoRef     |-> ".debug_macinfo+0x{:x}",
     DebugMacroRef       |-> ".debug_macro+0x{:x}",
     DebugRngListsBase   |-> ".debug_rnglists+0x{:x}",
     DebugRngListsIndex  |-> "rnglist[{}]",
     DebugStrRefSup      |-> ".debug_str.sup+0x{:x}",
     DebugStrOffsetsBase |-> ".debug_str_offsets+0x{:x}",
     DebugTypesRef       |-> "type_sig 0x{:016x}",
     DebugAddrBase       |-> ".debug_addr+0x{:x}",
     DebugAddrIndex      |-> "addr[{}]",
     AddressClass        |-> "addr_class({})",
     DwoId               |-> "dwo_id 0x{:016x}"]

\* The variants printed as a resolved string, or as their offset or index
\* when the string does not resolve; v is [offset, str].
StringRefFormats ==
    [DebugStrRef          |-> ".debug_str+0x{:x}",
     DebugStrOffsetsIndex |-> "str[{}]",
     DebugLineStrRef      |-> ".debug_line_str+0x{:x}"]

\* The variants printed by static_string().unwrap_or("?"); v is the static
\* string, if the constant has one.
ConstantKinds ==
    {"Encoding", "DecimalSign", "Endianity", "Accessibility", "Visibility",
     "Virtuality", "Language", "IdentifierCase", "CallingConvention",
     "Inline", "Ordering"}

format_attr_value(unit, value) ==
    CASE value.kind = "Addr" -> Formatted("0x{:08x}", value.v)
      [] value.kind = "Block" ->
             IF value.v.some THEN HexDump("", value.v.value) ELSE None
      [] value.kind \in {"Data1", "Data2", "Data4", "Data8", "Sdata", "Udata"} ->
             Formatted("{}", value.v)
      [] value.kind = "Exprloc" ->
             IF ~value.v.some THEN None
             ELSE IF value.v.value = <<>> THEN Formatted("<empty expr>", <<>>)
                  ELSE HexDump("expr", value.v.value)
      [] value.kind = "Flag" ->
             Formatted(IF value.v THEN "true" ELSE "false", <<>>)
      [] value.kind = "UnitRef" ->
             IF value.v.entry.some
             THEN LET ref_entry == value.v.entry.value
                      name == get_string_attr(ref_entry, "DW_AT_name")
                  IN  IF name.some
                      THEN Formatted("{}", demangle_name(name.value))
                      ELSE Formatted("<{}> @ 0x{:x}",
                                     <<ref_entry.tag, value.v.offset>>)
             ELSE Formatted("ref 0x{:x}", value.v.offset)
      [] value.kind \in DOMAIN OffsetFormats ->
             Formatted(OffsetFormats[value.kind], value.v)
      [] value.kind \in DOMAIN StringRefFormats ->
             IF value.v.str.some THEN Formatted("{}", value.v.str.value)
             ELSE Formatted(StringRefFormats[value.kind], value.v.offset)
      [] value.kind = "String" -> Formatted("{}", value.v)
      [] value.kind \in ConstantKinds ->
             Formatted("{}", IF value.v.some THEN value.v.value ELSE "?")
      [] value.kind = "FileIndex" ->
             IF /\ unit.line_program.some
                /\ value.v > 0
                /\ value.v \in DOMAIN unit.line_program.value
                /\ attr_string(unit.line_program.value[value.v]).some
             THEN Formatted("{}",
                            attr_string(unit.line_program.value[value.v]).value)
             ELSE Formatted("file[{}]", value.v)
      [] OTHER -> None

\* attr.name().static_string(): the names gimli knows.
KnownAttributeNames ==
    {"DW_AT_name", "DW_AT_linkage_name", "DW_AT_low_pc", "DW_AT_high_pc",
     "DW_AT_byte_size", "DW_AT_decl_file", "DW_AT_decl_line",
     "DW_AT_decl_column", "DW_AT_type", "DW_AT_location", "DW_AT_external",
     "DW_AT_ranges", "DW_AT_encoding", "DW_AT_comp_dir"}

AttributePair_NoFallback(unit, attr) ==
    LET formatted == format_attr_value(unit, attr.value)
    IN  IF formatted.some THEN <<<<attr.name, formatted.value>>>> ELSE <<>>

\* The pair pushed for one attribute, as a one-element list.
AttributePair(unit, attr) ==
    LET attr_name == IF attr.name \in KnownAttributeNames THEN attr.name
                     ELSE "Unknown"
        formatted == format_attr_value(unit, attr.value)
        attr_value_string == IF formatted.some THEN formatted.value
                             ELSE [fmt |-> "{:?}", arg |-> attr.value]
    IN  <<<<attr_name, attr_value_string>>>>

RECURSIVE CaptureAttributes(_, _)
CaptureAttributes(unit, attrs) ==
    IF attrs = <<>> THEN <<>>
    ELSE AttributePair(unit, Head(attrs))
             \o CaptureAttributes(unit, Tail(attrs))

(***************************************************************************)
(* parser.rs: the sort of a compile unit's children (a stable sort by the  *)
(* comparator of parse_compile_unit).                                      *)
(***************************************************************************)
tag_order(tag) ==
    CASE tag = "Subprogram" -> 0
      [] tag = "Variable" -> 1
      [] tag \in {"StructureType", "UnionType", "EnumerationType"} -> 2
      [] tag = "Typedef" -> 3
      [] tag = "Namespace" -> 4
      [] OTHER -> 5

IntCmp(a, b) == IF a < b THEN "Less" ELSE IF a = b THEN "Equal" ELSE "Greater"

CompareChildren(a, b) ==
    LET ord == IntCmp(tag_order(a.tag), tag_order(b.tag))
    IN  IF ord # "Equal" THEN ord
        ELSE IF a.address.some /\ b.address.some
             THEN IntCmp(a.address.value, b.address.value)
             ELSE IF a.address.some THEN "Less"
                  ELSE IF b.address.some THEN "Greater"
                       ELSE StrCmp(a.name, b.name)

RECURSIVE InsertChild(_, _)
InsertChild(sorted, c) ==
    IF sorted = <<>> THEN <<c>>
    ELSE IF CompareChildren(c, Head(sorted)) = "Less"
         THEN <<c>> \o sorted
         ELSE <<Head(sorted)>> \o InsertChild(Tail(sorted), c)

RECURSIVE SortChildren(_)
SortChildren(children) ==
    IF children = <<>> THEN <<>>
    ELSE InsertChild(SortChildren(SubSeq(children, 1, Len(children) - 1)),
                     children[Len(children)])

(***************************************************************************)
(* parser.rs: parse_die_recursive, parse_compile_unit, parse_dwarf_info.   *)
(* A walk returns its status ("Ok", "Err" for a gimli error passed on by   *)
(* `?`, "panic"), the value it returns when "Ok" and *id_counter as it     *)
(* leaves it.                                                              *)
(***************************************************************************)
\* Moving past an entry, or past its subtree, fails if the attributes of
\* the entry or of one of its descendants do not parse.
RECURSIVE SubtreeParses(_)
SubtreeParses(node) ==
    /\ ~node.fault
    /\ \A k \in 1..Len(node.children) : SubtreeParses(node.children[k])

Walked(status, kept, symbol, count, counter) ==
    [status |-> status, kept |-> kept, symbol |-> symbol, count |-> count,
     id_counter |-> counter]

WalkedChildren(status, children, count, counter) ==
    [status |-> status, children |-> children, count |-> count,
     id_counter |-> counter]

NoSymbol == [id |-> 0]

RECURSIVE parse_die_recursive(_, _, _, _)
RECURSIVE ParseChildren(_, _, _, _)

\* One round of the loop over child_iter: the walk of the first child
\* joined with the walk of the later ones.
JoinChildren_Reversed(first, rest) ==
    IF rest.status # "Ok" \/ ~first.kept THEN rest
    ELSE WalkedChildren("Ok", rest.children \o <<first.symbol>>,
                        first.count + rest.count, rest.id_counter)

JoinChildren(first, rest) ==
    IF rest.status # "Ok" \/ ~first.kept THEN rest
    ELSE WalkedChildren("Ok", <<first.symbol>> \o rest.children,
                        first.count + rest.count, rest.id_counter)

AfterFirstChild(unit, nodes, first, overflow_checks) ==
    IF first.status # "Ok"
    THEN WalkedChildren(first.status, <<>>, 0, first.id_counter)
    ELSE JoinChildren(first,
                      ParseChildren(unit, Tail(nodes), first.id_counter,
                                    overflow_checks))

\* The loop over child_iter of a node whose children are parsed.
ParseChildren(unit, nodes, counter, overflow_checks) ==
    IF nodes = <<>> THEN WalkedChildren("Ok", <<>>, 0, counter)
    ELSE AfterFirstChild(unit, nodes,
                         parse_die_recursive(unit, Head(nodes), counter,
                                             overflow_checks),
                         overflow_checks)

\* The DwarfSymbol parse_die_recursive builds for a kept entry.
DieSymbol(unit, node, dwarf_tag, id, location, children) ==
    [id         |-> id,
     name       |-> ResolveName(node, dwarf_tag),
     tag        |-> dwarf_tag,
     address    |-> get_address_attr(node, "DW_AT_low_pc"),
     size       |-> get_size(node),
     file       |-> location.file,
     line       |-> location.line,
     column     |-> location.column,
     type_name  |-> get_type_name(node),
     children   |-> children,
     attributes |-> CaptureAttributes(unit, node.attrs)]

\* The end of parse_die_recursive, once the children are walked.
AfterChildren(unit, node, id, below) ==
    IF below.status # "Ok"
    THEN Walked(below.status, FALSE, NoSymbol, 0, below.id_counter)
    ELSE Walked("Ok", TRUE,
                DieSymbol(unit, node, KeptTags[node.tag], id,
                          get_file_line_info(unit, node), below.children),
                1 + below.count, below.id_counter)

parse_die_recursive_CountsDiscarded(unit, node, counter, overflow_checks) ==
    IF ~IsKeptTag(node.tag)
    THEN Walked(IF SubtreeParses(node) THEN "Ok" ELSE "Err", FALSE, NoSymbol,
                0, counter + 1)
    ELSE IF overflow_checks /\ GetSizePanics(node)
         THEN Walked("panic", FALSE, NoSymbol, 0, counter + 1)
         ELSE IF node.fault
              THEN Walked("Err", FALSE, NoSymbol, 0, counter + 1)
              ELSE AfterChildren(unit, node, counter,
                                 ParseChildren(unit, node.children,
                                               counter + 1, overflow_checks))

parse_die_recursive(unit, node, counter, overflow_checks) ==
    IF ~IsKeptTag(node.tag)
    THEN Walked(IF SubtreeParses(node) THEN "Ok" ELSE "Err", FALSE, NoSymbol,
                0, counter)
    ELSE IF overflow_checks /\ GetSizePanics(node)
         THEN Walked("panic", FALSE, NoSymbol, 0, counter + 1)
         ELSE IF node.fault
              THEN Walked("Err", FALSE, NoSymbol, 0, counter + 1)
              ELSE AfterChildren(unit, node, counter,
                                 ParseChildren(unit, node.children,
                                               counter + 1, overflow_checks))

CompileUnitCount_ChildrenOnly(descendants) == descendants

\* symbol_count of parse_compile_unit: 1 for the root plus the counts of
\* its kept children.
CompileUnitCount(descendants) == 1 + descendants

\* The file of a compile unit: comp_dir/name, or the name alone.
CompileUnitFile(name, comp_dir) ==
    IF comp_dir.some THEN Some(comp_dir.value \o <<47>> \o name)
    ELSE Some(name)

CompileUnitSymbol(id, name, comp_dir, children) ==
    [id         |-> id,
     name       |-> name,
     tag        |-> "CompileUnit",
     address    |-> None,
     size       |-> None,
     file       |-> CompileUnitFile(name, comp_dir),
     line       |-> None,
     column     |-> None,
     type_name  |-> None,
     children   |-> SortChildren(children),
     attributes |-> <<>>]

CompileUnitName(unit_name) ==
    IF unit_name.some THEN unit_name.value ELSE UnknownName

\* The end of parse_compile_unit, once the children are walked.
AfterUnitChildren(entry, id, below) ==
    IF below.status # "Ok"
    THEN Walked(below.status, FALSE, NoSymbol, 0, below.id_counter)
    ELSE Walked("Ok", TRUE,
                CompileUnitSymbol(id,
                                  CompileUnitName(get_string_attr(entry,
                                                      "DW_AT_name")),
                                  get_string_attr(entry, "DW_AT_comp_dir"),
                                  below.children),
                CompileUnitCount(below.count), below.id_counter)

parse_compile_unit_OwnCounter(unit, entry, counter, overflow_checks) ==
    AfterUnitChildren(entry, 0,
                      ParseChildren(unit, entry.children, 1, overflow_checks))

parse_compile_unit(unit, entry, counter, overflow_checks) ==
    AfterUnitChildren(entry, counter,
                      ParseChildren(unit, entry.children, counter + 1,
                                    overflow_checks))

UnitsParsed(status, compile_units, total_symbols, counter) ==
    [status |-> status, compile_units |-> compile_units,
     total_symbols |-> total_symbols, id_counter |-> counter]

RECURSIVE ParseUnits(_, _, _, _)

\* One round of the loop over dwarf.units(): the walk of a compile unit
\* joined with the rounds for the later units.
JoinUnits(cu, rest) ==
    IF rest.status # "Ok" THEN rest
    ELSE UnitsParsed("Ok", <<cu.symbol>> \o rest.compile_units,
                     cu.count + rest.total_symbols, rest.id_counter)

AfterCompileUnit(units, k, cu, overflow_checks) ==
    IF cu.status # "Ok" THEN UnitsParsed(cu.status, <<>>, 0, cu.id_counter)
    ELSE JoinUnits(cu, ParseUnits(units, k + 1, cu.id_counter,
                                  overflow_checks))

ParseUnit(units, k, unit, counter, overflow_checks) ==
    IF unit.fault # "none" \/ unit.root.fault
    THEN UnitsParsed("Err", <<>>, 0, counter)
    ELSE IF unit.root.tag # "DW_TAG_compile_unit"
         THEN ParseUnits(units, k + 1, counter, overflow_checks)
         ELSE AfterCompileUnit(units, k,
                               parse_compile_unit(unit, unit.root, counter,
                                                  overflow_checks),
                               overflow_checks)

\* The loop over dwarf.units() from unit k on.  units.next() fails on a
\* malformed header, dwarf.unit(header) when the abbreviations or the
\* attributes of the root entry do not parse; a unit whose root is not a
\* DW_TAG_compile_unit is passed over without being walked.
ParseUnits(units, k, counter, overflow_checks) ==
    IF k > Len(units) THEN UnitsParsed("Ok", <<>>, 0, counter)
    ELSE ParseUnit(units, k, units[k], counter, overflow_checks)

StartIdCounter_Resume(left_over) == left_over

\* `let mut id_counter = 0`, whatever an earlier build left.
StartIdCounter(left_over) == 0

\* What parse_dwarf_info returns, from the outcome of the loop.
DwarfBuilt(parsed) ==
    [status     |-> parsed.status,
     info       |-> IF parsed.status = "Ok"
                    THEN [present       |-> parsed.compile_units # <<>>,
                          compile_units |-> parsed.compile_units,
                          total_symbols |-> parsed.total_symbols]
                    ELSE NoDwarfInfo,
     id_counter |-> parsed.id_counter]

parse_dwarf_info(units, left_over, overflow_checks) ==
    DwarfBuilt(ParseUnits(units, 1, StartIdCounter(left_over),
                          overflow_checks))

DwarfOutcome(built) == [status |-> built.status, info |-> built.info]

\* The caller's state after one build.
BuildReturns(built) ==
    /\ dwarfResult' = DwarfOutcome(built)
    /\ id_counter' = built.id_counter
    /\ builds' = Append(builds, DwarfOutcome(built))

\* One build of the tree; the caller keeps what each build returned.
ParseDwarfInfo ==
    /\ Len(builds) < MaxBuilds
    /\ \E overflow_checks \in BOOLEAN :
           BuildReturns(IF FileParses(container, debug_info)
                        THEN parse_dwarf_info(debug_info, id_counter,
                                              overflow_checks)
                        ELSE [status |-> "Err", info |-> NoDwarfInfo,
                              id_counter |-> id_counter])
    /\ UNCHANGED <<viewVars, fileVars, memory_regions, segResult, queryVars, rttResult,
                   scanVars>>

(***************************************************************************)
(* Inputs of the DWARF tree builder: entries as gimli presents them.       *)
(***************************************************************************)
Attr(name, kind, v) == [name |-> name, value |-> [kind |-> kind, v |-> v]]

Entry(tag, attrs, children) ==
    [tag |-> tag, attrs |-> attrs, children |-> children, fault |-> FALSE]

NameAttr(s) == Attr("DW_AT_name", "String", s)

\* A string in .debug_str at an offset; str is absent when the offset lies
\* outside the section.
StrRef(offset, str) == [offset |-> offset, str |-> str]

\* A reference to the entry at an offset of the unit.
UnitRefTo(offset, entry) == [offset |-> offset, entry |-> entry]

BaseTypeU32 ==
    Entry("DW_TAG_base_type",
          <<NameAttr(<<117, 51, 50>>), Attr("DW_AT_encoding", "Encoding", Some("DW_ATE_unsigned")),
            Attr("DW_AT_byte_size", "Udata", 4)>>, <<>>)

\* fn main(b, a) { { let i; } } at 0x200, 0x40 bytes long.
FunctionMain ==
    Entry("DW_TAG_subprogram",
          <<Attr("DW_AT_low_pc", "Addr", 512), Attr("DW_AT_high_pc", "Udata", 64),
            NameAttr(<<109, 97, 105, 110>>), Attr("DW_AT_decl_file", "FileIndex", 1),
            Attr("DW_AT_decl_line", "Udata", 7), Attr("DW_AT_external", "Flag", TRUE)>>,
          <<Entry("DW_TAG_formal_parameter", <<NameAttr(<<98>>)>>, <<>>),
            Entry("DW_TAG_formal_parameter", <<NameAttr(<<97>>)>>, <<>>),
            Entry("DW_TAG_lexical_block", <<>>,
                  <<Entry("DW_TAG_variable", <<NameAttr(<<105>>)>>, <<>>)>>)>>)

\* A Rust function at 0x100, its end given as the address 0x140.
FunctionMangled ==
    Entry("DW_TAG_subprogram",
          <<Attr("DW_AT_low_pc", "Addr", 256), Attr("DW_AT_high_pc", "Addr", 320),
            Attr("DW_AT_linkage_name", "DebugStrRef", StrRef(16, Some(MangledRust))),
            NameAttr(<<98, 97, 114>>)>>,
          <<>>)

\* struct S { b, a, c }
StructS ==
    Entry("DW_TAG_structure_type",
          <<NameAttr(<<83>>), Attr("DW_AT_byte_size", "Data1", 12)>>,
          <<Entry("DW_TAG_member", <<NameAttr(<<98>>)>>, <<>>),
            Entry("DW_TAG_member", <<NameAttr(<<97>>)>>, <<>>),
            Entry("DW_TAG_member", <<NameAttr(<<99>>)>>, <<>>)>>)

VariableV ==
    Entry("DW_TAG_variable",
          <<NameAttr(<<118>>),
            Attr("DW_AT_type", "UnitRef", UnitRefTo(64, Some(BaseTypeU32)))>>,
          <<>>)

VariableCounter ==
    Entry("DW_TAG_variable", <<NameAttr(<<99, 111, 117, 110, 116, 101, 114>>)>>, <<>>)

\* A C++ class, a tag the builder does not keep, with a member.
ClassC ==
    Entry("DW_TAG_class_type", <<NameAttr(<<67>>)>>,
          <<Entry("DW_TAG_member", <<NameAttr(<<120>>)>>, <<>>)>>)

\* A variable whose attributes stop parsing after its name.
VariableTruncated ==
    [Entry("DW_TAG_variable", <<NameAttr(<<98, 97, 100>>)>>, <<>>) EXCEPT !.fault = TRUE]

\* namespace ns { class C { x }; enum E { A }; }
NamespaceNs ==
    Entry("DW_TAG_namespace", <<NameAttr(<<110, 115>>)>>,
          <<ClassC,
            Entry("DW_TAG_enumeration_type", <<NameAttr(<<69>>)>>,
                  <<Entry("DW_TAG_enumerator", <<NameAttr(<<65>>)>>, <<>>)>>)>>)

TopLevelEntries ==
    <<FunctionMain, FunctionMangled, StructS, VariableV, VariableCounter,
      ClassC, VariableTruncated, NamespaceNs>>

\* The file table of a line program: path_name of file 1 and of file 2.
FileTable ==
    <<[kind |-> "String", v |-> <<115, 114, 99, 47, 109, 97, 105, 110, 46, 114, 115>>],
      [kind |-> "DebugLineStrRef", v |-> StrRef(8, None)]>>

CompileUnit(name_attrs, children) ==
    [fault        |-> "none",
     root         |-> Entry("DW_TAG_compile_unit", name_attrs, children),
     line_program |-> Some(FileTable)]

\* The units that may follow the first one: a unit with a compilation
\* directory, a partial unit (not walked), a unit whose header does not
\* parse.
LaterUnits ==
    <<[CompileUnit(<<NameAttr(<<108, 105, 98, 46, 114, 115>>), Attr("DW_AT_comp_dir", "String", <<47, 119, 111, 114, 107>>)>>,
                   <<VariableCounter>>)
          EXCEPT !.line_program = None],
      [fault        |-> "none",
       root         |-> Entry("DW_TAG_partial_unit", <<>>, <<VariableTruncated>>),
       line_program |-> None],
      [fault        |-> "header",
       root         |-> Entry("DW_TAG_compile_unit", <<>>, <<>>),
       line_program |-> None]>>

\* SpecTree: no debug sections, or a first compile unit with up to
\* MaxTopLevel top-level entries followed by up to MaxUnits - 1 later units.
InitTree ==
    /\ SegIdle
    /\ QueryIdle
    /\ NoRttInput
    /\ DwarfIdle
    /\ ScanIdle
    /\ \/ debug_info = <<>>
       \/ \E n \in 0..MaxTopLevel, m \in 0..(MaxUnits - 1) :
          \E pick \in [1..n -> 1..Len(TopLevelEntries)],
             later \in [1..m -> 1..Len(LaterUnits)] :
              debug_info =
                  <<CompileUnit(<<NameAttr(<<109, 97, 105, 110, 46, 114, 115>>)>>,
                                [i \in 1..n |-> TopLevelEntries[pick[i]]])>>
                      \o [j \in 1..m |-> LaterUnits[later[j]]]

NextTree == ParseDwarfInfo

SpecTree == InitTree /\ [][NextTree]_vars

\* SpecSize: one function or structure under one compile unit, with every
\* choice of a byte size, a low-PC and a high-PC in the encodings gimli
\* yields.  .debug_addr holds the address a DW_FORM_addrx low-PC refers to.
DebugAddrTable == <<4096>>

ByteSizeChoices ==
    << <<>>,
       <<Attr("DW_AT_byte_size", "Udata", 4)>>,
       <<Attr("DW_AT_byte_size", "Data1", 12)>>,
       <<Attr("DW_AT_byte_size", "Data2", 300)>>,
       <<Attr("DW_AT_byte_size", "Data4", 24)>>,
       <<Attr("DW_AT_byte_size", "Data8", 8)>>,
       <<Attr("DW_AT_byte_size", "Exprloc", Some(<<145, 0>>))>> >>

LowPcChoices ==
    << <<>>,
       <<Attr("DW_AT_low_pc", "Addr", 4096)>>,
       <<Attr("DW_AT_low_pc", "Udata", 4096)>>,
       <<Attr("DW_AT_low_pc", "DebugAddrIndex", 0)>> >>

HighPcChoices ==
    << <<>>,
       <<Attr("DW_AT_high_pc", "Addr", 4160)>>,
       <<Attr("DW_AT_high_pc", "Addr", 2048)>>,
       <<Attr("DW_AT_high_pc", "Udata", 64)>>,
       <<Attr("DW_AT_high_pc", "Data1", 64)>>,
       <<Attr("DW_AT_high_pc", "Data2", 64)>>,
       <<Attr("DW_AT_high_pc", "Data4", 64)>>,
       <<Attr("DW_AT_high_pc", "Data8", 64)>>,
       <<Attr("DW_AT_high_pc", "Flag", TRUE)>> >>

OneEntryUnit(entry) == <<CompileUnit(<<NameAttr(<<109, 97, 105, 110, 46, 114, 115>>)>>, <<entry>>)>>

DwarfOnly ==
    /\ SegIdle
    /\ QueryIdle
    /\ NoRttInput
    /\ DwarfIdle
    /\ ScanIdle

InitSize ==
    /\ DwarfOnly
    /\ \E tag \in {"DW_TAG_subprogram", "DW_TAG_structure_type"},
          b \in 1..Len(ByteSizeChoices), l \in 1..Len(LowPcChoices),
          h \in 1..Len(HighPcChoices) :
           debug_info =
               OneEntryUnit(Entry(tag,
                                  <<NameAttr(<<102>>)>> \o LowPcChoices[l]
                                      \o HighPcChoices[h] \o ByteSizeChoices[b],
                                  <<>>))

SpecSize == InitSize /\ [][NextTree]_vars

\* SpecAttrs: one variable under one compile unit with up to MaxAttrs
\* attributes drawn from the value kinds below, whose parsing may fail
\* after them.
LongBlock == <<1, 2, 3, 4, 5, 6, 7, 8, 9, 10, 11, 12, 13, 14, 15, 16, 17>>

AttributeSamples ==
    <<NameAttr(<<120>>),
      Attr("DW_AT_low_pc", "Addr", 512),
      Attr("DW_AT_decl_line", "Data2", 300),
      Attr("DW_AT_location", "Block", Some(<<3, 0, 2>>)),
      Attr("DW_AT_location", "Block", Some(LongBlock)),
      Attr("DW_AT_location", "Block", None),
      Attr("DW_AT_location", "Exprloc", Some(<<>>)),
      Attr("DW_AT_location", "Exprloc", Some(<<145, 120>>)),
      Attr("DW_AT_location", "Exprloc", None),
      Attr("DW_AT_external", "Flag", TRUE),
      Attr("DW_AT_type", "UnitRef", UnitRefTo(64, Some(BaseTypeU32))),
      Attr("DW_AT_type", "UnitRef",
           UnitRefTo(80, Some(Entry("DW_TAG_pointer_type", <<>>, <<>>)))),
      Attr("DW_AT_type", "UnitRef", UnitRefTo(4000, None)),
      Attr("DW_AT_linkage_name", "DebugStrRef", StrRef(16, Some(MangledCpp))),
      Attr("DW_AT_name", "DebugStrRef", StrRef(4000, None)),
      Attr("DW_AT_ranges", "RangeListsRef", 32),
      Attr("DW_AT_encoding", "Encoding", None),
      Attr("DW_AT_decl_file", "FileIndex", 1),
      Attr("DW_AT_decl_file", "FileIndex", 2),
      Attr("DW_AT_low_pc", "DebugAddrIndex", 0),
      Attr("DwAt(0x3fe1)", "Udata", 5)>>

InitAttrs ==
    /\ DwarfOnly
    /\ \E n \in 0..MaxAttrs, fault \in BOOLEAN :
       \E pick \in [1..n -> 1..Len(AttributeSamples)] :
           debug_info =
               OneEntryUnit([Entry("DW_TAG_variable",
                                   [i \in 1..n |-> AttributeSamples[pick[i]]],
                                   <<>>)
                                EXCEPT !.fault = fault])

SpecAttrs == InitAttrs /\ [][NextTree]_vars

\* SpecName: one kept entry under one compile unit with every choice of a
\* plain name and a linkage name: absent, inline, in .debug_str, at an
\* offset outside .debug_str, in the supplementary file (which is not
\* loaded).
PlainNameChoices ==
    << <<>>,
       <<NameAttr(<<109, 97, 105, 110>>)>>,
       <<NameAttr(MangledCpp)>>,
       <<Attr("DW_AT_name", "DebugStrRef", StrRef(24, Some(MangledRust)))>>,
       <<Attr("DW_AT_name", "DebugStrRef", StrRef(4000, None))>> >>

LinkageNameChoices ==
    << <<>>,
       <<Attr("DW_AT_linkage_name", "DebugStrRef", StrRef(24, Some(MangledRust)))>>,
       <<Attr("DW_AT_linkage_name", "String", MangledCpp)>>,
       <<Attr("DW_AT_linkage_name", "String", <<114, 101, 115, 101, 116, 95, 104, 97, 110, 100, 108, 101, 114>>)>>,
       <<Attr("DW_AT_linkage_name", "DebugStrRefSup", 8)>> >>

NamedTags ==
    {"DW_TAG_subprogram", "DW_TAG_lexical_block", "DW_TAG_inlined_subroutine",
     "DW_TAG_variable", "DW_TAG_enumerator"}

InitName ==
    /\ DwarfOnly
    /\ \E tag \in NamedTags, p \in 1..Len(PlainNameChoices),
          l \in 1..Len(LinkageNameChoices) :
           debug_info =
               OneEntryUnit(Entry(tag,
                                  PlainNameChoices[p] \o LinkageNameChoices[l],
                                  <<>>))

SpecName == InitName /\ [][NextTree]_vars

\* SpecOps: the five operations on one file, in any order, the tree build
\* up to MaxBuilds times.  The file has code, the RTT control block and
\* possibly defmt sections; its debug sections are missing, well-formed or
\* malformed (an entry or a unit header that does not parse).
OpsImage == ControlBlock(4, "Little", 1, 1, 1, 1, NoSlot, NoSlot)

OpsSection(name, address, size, sh_flags) ==
    [name |-> name, address |-> address, size |-> size, sh_flags |-> sh_flags,
     file_range |-> Some(size), data |-> None]

OpsText == OpsSection(<<".", "t", "e", "x", "t">>, 16, 64, 6)

OpsData ==
    [RttSection(256, OpsImage) EXCEPT !.name = <<".", "d", "a", "t", "a">>]

OpsSectionTables ==
    << <<OpsText, OpsData>>,
       <<OpsText, OpsData, OpsSection(<<".">> \o defmt, 0, 2, 0)>>,
       <<OpsSection(<<".">> \o defmt \o <<".", "e", "n", "d">>, 0, 0, 0),
         OpsData,
         OpsSection(<<".", "m", "y", "_">> \o defmt, 0, 1, 0),
         OpsText>> >>

OpsSymbolTables ==
    << <<>>,
       <<[name |-> Some(_SEGGER_RTT), address |-> 256, size |-> Len(OpsImage)],
         [name |-> Some(main), address |-> 16, size |-> 8]>>,
       <<[name |-> Some(main), address |-> 32, size |-> 8],
         [name |-> None, address |-> 24, size |-> 0],
         [name |-> Some(<<>>), address |-> 20, size |-> 0],
         [name |-> Some(defmt), address |-> 0, size |-> 0],
         [name |-> Some(SEGGER_RTT), address |-> 16, size |-> 0]>> >>

OpsDebugInfo ==
    << <<>>,
       OneEntryUnit(FunctionMain),
       OneEntryUnit(VariableTruncated),
       OneEntryUnit(StructS) \o <<LaterUnits[3]>> >>

OpsMemoryMap ==
    <<[start |-> 0, end |-> 128, tag |-> "Nvm", name |-> None,
       name_has_ram |-> FALSE],
      [start |-> 256, end |-> 1024, tag |-> "Ram", name |-> None,
       name_has_ram |-> FALSE]>>

InitOps ==
    /\ QueryIdle
    /\ DwarfIdle
    /\ ScanIdle
    /\ segResult = NoResult
    /\ rttResult = NoRttResult
    /\ is_64 = FALSE
    /\ endianness = "Little"
    /\ \/ /\ container \in {"unreadable", "malformed"}
          /\ sections = <<>>
          /\ symbols = <<>>
          /\ debug_info = <<>>
          /\ memory_regions = None
       \/ /\ container = "elf"
          /\ \E s \in 1..Len(OpsSectionTables) : sections = OpsSectionTables[s]
          /\ \E s \in 1..Len(OpsSymbolTables) : symbols = OpsSymbolTables[s]
          /\ \E d \in 1..Len(OpsDebugInfo) : debug_info = OpsDebugInfo[d]
          /\ memory_regions \in
                 {None,
                  Some(load_memory_layout_from_probe_rs(OpsMemoryMap).regions)}

NextOps ==
    \/ ParseElfSegments
    \/ ParseElfSymbols
    \/ ParseRttInfo
    \/ ParseDefmtInfo
    \/ ParseDwarfInfo

SpecOps == InitOps /\ [][NextOps]_vars

\* SpecOrder: MaxOrderSections loaded sections, close enough to overlap
\* each other, against a catalog of two regions.
OrderRegions ==
    { [start |-> 0, end |-> 2, tag |-> "Nvm"],
      [start |-> 2, end |-> 4, tag |-> "Ram"],
      [start |-> 0, end |-> 8, tag |-> "Ram"],
      [start |-> 8, end |-> 9, tag |-> "Nvm"] }

InitOrder ==
    /\ OthersIdle
    /\ QueryIdle
    /\ NoRttInput
    /\ segResult = NoResult
    /\ container = "elf"
    /\ \E h \in [1..MaxOrderSections ->
                    [address : 1..3, size : 1..2,
                     kind : {k \in SectionKinds : k.sh_flags = 6}]] :
           sections = MakeSections(h)
    /\ \E m \in [1..2 -> OrderRegions] :
           memory_regions =
               Some(load_memory_layout_from_probe_rs(MakeMemoryMap(m)).regions)

\* SpecView: a MemoryView opened on a file, with no target or with chipA,
\* then up to MaxEvents handler calls while the file is rewritten, removed
\* or left alone between them.
MaxEvents == 3

HighSection == OpsSection(<<".", "h", "i", "g", "h">>, U64Max - 1, 4, 2)

ViewSymbols ==
    <<[name |-> Some(_SEGGER_RTT), address |-> 256, size |-> Len(OpsImage)],
      [name |-> Some(main), address |-> 16, size |-> 8]>>

ViewFiles ==
    <<[container |-> "elf", sections |-> <<OpsText, OpsData>>,
       symbols |-> ViewSymbols],
      [container |-> "elf", sections |-> <<OpsText>>,
       symbols |-> <<ViewSymbols[2]>>],
      [container |-> "elf", sections |-> OpsSectionTables[2],
       symbols |-> ViewSymbols],
      [container |-> "elf", sections |-> <<OpsText, HighSection>>,
       symbols |-> <<ViewSymbols[2]>>],
      [container |-> "unreadable", sections |-> <<>>, symbols |-> <<>>]>>

\* What get_target_by_name finds: chipA holds the whole file, chipB has
\* 32 bytes of flash only, chipNoMemory has an empty memory map and
\* "unknown" is not a target.
ViewTargets == {NoTarget, "chipA", "chipB", "chipNoMemory", "unknown"}

TargetCatalog ==
    [target \in ViewTargets |->
        CASE target = "chipA" -> Some(OpsMemoryMap)
          [] target = "chipB" ->
                 Some(<<[start |-> 0, end |-> 32, tag |-> "Nvm", name |-> None,
                         name_has_ram |-> FALSE]>>)
          [] target = "chipNoMemory" -> Some(<<>>)
          [] OTHER -> None]

\* The window main opens once every parse of the file has returned Ok.
InitView ==
    /\ SegIdleButSections
    /\ QueryIdle
    /\ DwarfIdle
    /\ debug_info = <<>>
    /\ symResult = NoScanResult
    /\ defmtResult = NoScanResult
    /\ rttResult = NoRttResult
    /\ is_64 = FALSE
    /\ endianness = "Little"
    /\ event = NoEvent
    /\ \E f \in 1..(Len(ViewFiles) - 1), target \in {NoTarget, "chipA"} :
           /\ container = ViewFiles[f].container
           /\ sections = ViewFiles[f].sections
           /\ symbols = ViewFiles[f].symbols
           /\ ~ParseRttInfoPanics(symbols, sections)
           /\ target # NoTarget =>
                  ~ParseElfSegmentsPanics(
                       sections, Some(LayoutOf(TargetCatalog[target]).regions))
           /\ view = MemoryViewNew(
                  parse_elf_segments(
                      sections,
                      IF target = NoTarget THEN None
                      ELSE Some(LayoutOf(TargetCatalog[target]).regions)),
                  LayoutOf(TargetCatalog[target]).regions,
                  parse_elf_symbols(symbols),
                  parse_defmt_info(sections),
                  parse_rtt_info(is_64, endianness, symbols, sections))

HandlerRuns(handler, target) ==
    /\ view.status = "running"
    /\ event.seq < MaxEvents
    /\ event' = [seq |-> event.seq + 1, handler |-> handler, target |-> target]
    /\ UNCHANGED <<fileVars, memory_regions, segResult, queryVars, rttResult,
                   dwarfVars, scanVars>>

\* A click on one of the segments render has drawn.
OnSegmentClick ==
    /\ HandlerRuns("on_segment_click", "")
    /\ \E idx \in 0..(Len(view.segments) - 1), overflow_checks \in BOOLEAN :
           view' = on_segment_click(view, idx, overflow_checks)

OnTargetChange ==
    \E target \in ViewTargets, overflow_checks \in BOOLEAN :
        /\ HandlerRuns("on_target_change", target)
        /\ view' = on_target_change(view, target, TargetCatalog[target],
                                    container, sections, symbols, is_64,
                                    endianness, overflow_checks)

OnDwarfSymbolSelect ==
    /\ HandlerRuns("on_dwarf_symbol_select", "")
    /\ \E symbol \in 0..1 : view' = on_dwarf_symbol_select(view, symbol)

\* The file at elf_path is rebuilt or removed while the window is open.
RewriteFile ==
    /\ view.status = "running"
    /\ \E f \in 1..Len(ViewFiles) :
           /\ ViewFiles[f].sections # sections
                  \/ ViewFiles[f].container # container
           /\ container' = ViewFiles[f].container
           /\ sections' = ViewFiles[f].sections
           /\ symbols' = ViewFiles[f].symbols
    /\ UNCHANGED <<is_64, endianness, debug_info, memory_regions, segResult,
                   queryVars, rttResult, dwarfVars, scanVars, viewVars>>

NextView ==
    \/ OnSegmentClick
    \/ OnTargetChange
    \/ OnDwarfSymbolSelect
    \/ RewriteFile

SpecView == InitView /\ [][NextView]_vars

NextRtt == ParseRttInfo

SpecRtt == InitRtt /\ [][NextRtt]_vars
SpecRttSym == InitRttSym /\ [][NextRtt]_vars

NextSeg == ParseElfSegments
NextRange == RangeQuery

SpecSeg == InitSeg /\ [][NextSeg]_vars
SpecConf == InitConf /\ [][NextSeg]_vars
SpecRange == InitRange /\ [][NextRange]_vars
SpecOrder == InitOrder /\ [][NextSeg]_vars

(***************************************************************************)
(* Reference notions the claims are stated with: half-open ranges of       *)
(* exact (unbounded) integers.                                             *)
(***************************************************************************)
Elements(seq) == {seq[k] : k \in 1..Len(seq)}

\* Some x has a1 <= x < a1 + s1 and a2 <= x < a2 + s2: both ranges are
\* non-empty and each starts before the other ends.
RangesIntersect(a1, s1, a2, s2) ==
    s1 > 0 /\ s2 > 0 /\ a1 < a2 + s2 /\ a2 < a1 + s1

\* Every x with address <= x < address + size has start <= x < start + rsize.
RangeInside(address, size, start, rsize) ==
    size > 0 => (start <= address /\ address + size <= start + rsize)

ConflictsChecked == segResult.status = "Ok" /\ memory_regions.some

RegionContains(r, seg) == RangeInside(seg.address, seg.size, r.start, r.size)
RegionTouches(r, seg) == RangesIntersect(seg.address, seg.size, r.start, r.size)

(***************************************************************************)
(* C1: after conflict detection with regions supplied, for every pair of   *)
(* distinct segments a, b: a's conflicts contain "Overlaps with {b.name}"  *)
(* iff the half-open ranges of a and b intersect (and so symmetrically).   *)
(***************************************************************************)
C1_OverlapIffIntersect ==
    ConflictsChecked =>
        \A i, j \in 1..Len(segResult.segments) :
            LET a == segResult.segments[i]
                b == segResult.segments[j]
            IN  i # j =>
                    (OverlapsWith(b.name) \in Elements(a.conflicts)
                        <=> RangesIntersect(a.address, a.size, b.address, b.size))

(***************************************************************************)
(* C2: with regions supplied, a segment lying fully inside exactly one     *)
(* region of the catalog has neither a "Not in any defined memory region"  *)
(* nor a "Partially outside ... region" diagnostic.                        *)
(***************************************************************************)
C2_InsideOneRegionNoDiagnostic ==
    ConflictsChecked =>
        \A i \in 1..Len(segResult.segments) :
            LET seg == segResult.segments[i]
                regions == memory_regions.value
                holders == {k \in 1..Len(regions) : RegionContains(regions[k], seg)}
            IN  Cardinality(holders) = 1 =>
                    \A c \in Elements(seg.conflicts) :
                        c.msg \notin {NotInAnyRegion.msg, PartiallyOutside("").msg}

(***************************************************************************)
(* C3: with regions supplied, "Not in any defined memory region" is in a   *)
(* segment's conflicts iff no region contains or intersects its range; a   *)
(* segment that only partially overlaps some region has a "Partially       *)
(* outside" diagnostic and not the "Not in any" one.                       *)
(***************************************************************************)
C3_NotInAnyIffUntouched ==
    ConflictsChecked =>
        \A i \in 1..Len(segResult.segments) :
            LET seg == segResult.segments[i]
                regions == memory_regions.value
                contained == \E k \in 1..Len(regions) : RegionContains(regions[k], seg)
                touched == \E k \in 1..Len(regions) : RegionTouches(regions[k], seg)
            IN  /\ NotInAnyRegion \in Elements(seg.conflicts)
                       <=> ~(contained \/ touched)
                /\ (touched /\ ~contained) =>
                       /\ \E c \in Elements(seg.conflicts) :
                              c.msg = PartiallyOutside("").msg
                       /\ NotInAnyRegion \notin Elements(seg.conflicts)

(***************************************************************************)
(* C4: with no regions supplied, extraction returns every segment with an  *)
(* empty conflicts list, even when segments overlap each other.            *)
(***************************************************************************)
C4_NoTargetNoConflicts ==
    (segResult.status = "Ok" /\ ~memory_regions.some) =>
        \A i \in 1..Len(segResult.segments) :
            segResult.segments[i].conflicts = <<>>

C4_Witness ==
    /\ segResult.status = "Ok"
    /\ ~memory_regions.some
    /\ \E i, j \in 1..Len(segResult.segments) :
           /\ i # j
           /\ RangesIntersect(segResult.segments[i].address,
                              segResult.segments[i].size,
                              segResult.segments[j].address,
                              segResult.segments[j].size)

(***************************************************************************)
(* C5: overlaps(addr, size) is true iff [addr, addr+size) and the region's *)
(* [start, start+size) have an address in common, for every addr and every *)
(* size >= 0, empty ranges and empty regions included.                     *)
(***************************************************************************)
C5_OverlapsIffCommonAddress ==
    queryResult.status = "Ok" =>
        (queryResult.overlaps
            <=> RangesIntersect(query.value.address, query.value.size,
                                query.value.region.start,
                                query.value.region.size))

(***************************************************************************)
(* C6: contains(addr, size) is true iff every address of [addr, addr+size) *)
(* lies in the region's [start, start+size), for all u64 values, sums that *)
(* do not fit in 64 bits included.  Stated for non-empty ranges, where     *)
(* "every address lies inside" is not vacuous.                             *)
(***************************************************************************)
C6_ContainsIffInside ==
    (queryResult.status = "Ok" /\ query.value.size > 0) =>
        (queryResult.contains
            <=> RangeInside(query.value.address, query.value.size,
                            query.value.region.start,
                            query.value.region.size))

(***************************************************************************)
(* C7: extraction returns exactly the sections with size > 0, address > 0  *)
(* and the allocated flag set, one segment each, in ascending address      *)
(* order.                                                                  *)
(***************************************************************************)
C7_ExactlyLoadedSectionsSorted ==
    segResult.status = "Ok" =>
        LET segs == segResult.segments
            wanted == {i \in 1..Len(sections) :
                          /\ sections[i].size > 0
                          /\ sections[i].address > 0
                          /\ sections[i].sh_flags \in {2, 3, 6, 7}}
        IN  /\ Len(segs) = Cardinality(wanted)
            /\ \A i \in wanted : \E k \in 1..Len(segs) :
                   /\ segs[k].name = sections[i].name
                   /\ segs[k].address = sections[i].address
                   /\ segs[k].size = sections[i].size
            /\ \A k \in 1..(Len(segs) - 1) : segs[k].address <= segs[k + 1].address

C7_Witness ==
    /\ segResult.status = "Ok"
    /\ Len(sections) = 2
    /\ Len(segResult.segments) = 2
    /\ sections[1].address > sections[2].address
    /\ segResult.segments[1].name = sections[2].name

(***************************************************************************)
(* Reference notions for the RTT claims.                                   *)
(***************************************************************************)
RttDone == rttResult.status = "Ok"
RttInfo == rttResult.info

\* The symbols whose name satisfies a predicate, and the first of them.
FirstOf(hits) == CHOOSE i \in hits : \A j \in hits : i <= j

\* Names the claim as written accepts: equal to, or containing, either
\* known name.
NamedAsClaimed(name) ==
    \/ name = _SEGGER_RTT
    \/ name = SEGGER_RTT
    \/ StrContains(name, _SEGGER_RTT)
    \/ StrContains(name, SEGGER_RTT)

\* Names the amended claim accepts.
NamedAsAmended(name) ==
    \/ name = _SEGGER_RTT
    \/ name = SEGGER_RTT
    \/ StrContains(name, _SEGGER_RTT)

DescribesSymbol(info, symbol) ==
    /\ info.present
    /\ info.symbol_name = symbol.name
    /\ info.address = Some(symbol.address)

(***************************************************************************)
(* C8 as written: RTT decoding selects the first symbol, in table order,   *)
(* whose name equals "_SEGGER_RTT" or "SEGGER_RTT" or contains one of them *)
(* as a substring; the result describes that symbol.                       *)
(***************************************************************************)
C8_FirstKnownOrContainingEither ==
    RttDone =>
        LET hits == {i \in 1..Len(symbols) :
                        symbols[i].name.some
                        /\ NamedAsClaimed(symbols[i].name.value)}
        IN  hits # {} => DescribesSymbol(RttInfo, symbols[FirstOf(hits)])

(***************************************************************************)
(* C8 amended: RTT decoding selects the first symbol, in table order,      *)
(* whose name equals "_SEGGER_RTT" or "SEGGER_RTT" or contains             *)
(* "_SEGGER_RTT" as a substring; the result describes that symbol and      *)
(* later matching symbols are ignored.                                     *)
(***************************************************************************)
C8_FirstMatchWins ==
    RttDone =>
        LET hits == {i \in 1..Len(symbols) :
                        symbols[i].name.some
                        /\ NamedAsAmended(symbols[i].name.value)}
        IN  hits # {} => DescribesSymbol(RttInfo, symbols[FirstOf(hits)])

C8_Witness ==
    /\ RttDone
    /\ Len(symbols) = 2
    /\ symbols[1].name = Some(<<"m", "y">> \o _SEGGER_RTT)
    /\ symbols[2].name = Some(SEGGER_RTT)
    /\ symbols[1].address # symbols[2].address
    /\ RttInfo.symbol_name = symbols[1].name

(***************************************************************************)
(* The bytes available to the decoder in SpecRtt: the data of the section  *)
(* from the symbol's address on.                                           *)
(***************************************************************************)
RttBytes ==
    SubSeq(sections[1].data.value,
           symbols[1].address - sections[1].address + 1,
           Len(sections[1].data.value))

ByteAt(data, offset) == data[offset + 1]

\* The u32 stored at bytes [offset, offset + 4) in a byte order.
U32At(data, offset, endian) ==
    IF endian = "Little"
    THEN ByteAt(data, offset) + 256 * ByteAt(data, offset + 1)
         + 65536 * ByteAt(data, offset + 2) + 16777216 * ByteAt(data, offset + 3)
    ELSE ByteAt(data, offset + 3) + 256 * ByteAt(data, offset + 2)
         + 65536 * ByteAt(data, offset + 1) + 16777216 * ByteAt(data, offset)

\* The p-byte value stored at [offset, offset + p), as a u64.
PtrAt(data, offset, p, endian) ==
    IF p = 4 THEN U64(0, U32At(data, offset, endian))
    ELSE IF endian = "Little"
         THEN U64(U32At(data, offset + 4, endian), U32At(data, offset, endian))
         ELSE U64(U32At(data, offset, endian), U32At(data, offset + 4, endian))

(***************************************************************************)
(* C9: decoding a control block from fewer than 24 available bytes yields  *)
(* absent max_up_buffers and max_down_buffers and empty up_buffers and     *)
(* down_buffers, whatever the bytes, the pointer size and the byte order;  *)
(* the result still has present = true and is not an error.                *)
(***************************************************************************)
C9_ShortBlockDecodesEmpty ==
    (rttResult.status # "none" /\ Len(RttBytes) < 24) =>
        /\ rttResult.status = "Ok"
        /\ RttInfo.present
        /\ RttInfo.max_up_buffers = None
        /\ RttInfo.max_down_buffers = None
        /\ RttInfo.up_buffers = <<>>
        /\ RttInfo.down_buffers = <<>>

C9_Witness ==
    /\ RttDone
    /\ Len(RttBytes) = 23
    /\ ByteAt(RttBytes, 16) # 0
    /\ RttInfo.present

(***************************************************************************)
(* C10: with p in {4, 8}, either byte order and at least 24 bytes          *)
(* available, max_up_buffers is the u32 at bytes [16, 20) and              *)
(* max_down_buffers the u32 at [20, 24) in the target byte order, and for  *)
(* each up slot i that fits in the data the buffer address is the p-byte   *)
(* value at 24 + i*(2p+16) + p and the size the u32 at 24 + i*(2p+16) + 2p *)
(* (seen in up_buffers when both are non-zero).  The 4-byte little-endian  *)
(* block with one up buffer at 0x20000000 of 1024 bytes and no down buffer *)
(* decodes to up_buffers = [("Up 0", 0x20000000, 1024)], down_buffers = [].*)
(***************************************************************************)
ExampleBlock ==
    acID \o <<1, 0, 0, 0>> \o <<0, 0, 0, 0>>
         \o <<0, 1, 0, 8>> \o <<0, 0, 0, 32>> \o <<0, 4, 0, 0>>
         \o <<5, 0, 0, 0>> \o <<3, 0, 0, 0>> \o <<2, 0, 0, 0>>

C10_FieldsAtDocumentedOffsets ==
    (RttDone /\ Len(RttBytes) >= 24) =>
        LET data == RttBytes
            p == IF is_64 THEN 8 ELSE 4
            desc == 2 * p + 16
            declared == U32At(data, 16, endianness)
        IN  /\ RttInfo.max_up_buffers = Some(declared)
            /\ RttInfo.max_down_buffers = Some(U32At(data, 20, endianness))
            /\ \A i \in 0..(Min(declared, 16) - 1) :
                   LET at == 24 + i * desc
                   IN  (at + desc <= Len(data)
                        /\ PtrAt(data, at + p, p, endianness) # U64Zero
                        /\ U32At(data, at + 2 * p, endianness) # 0) =>
                           [name           |-> BufferName("Up", i),
                            buffer_address |-> PtrAt(data, at + p, p, endianness),
                            size           |-> U32At(data, at + 2 * p, endianness)]
                               \in Elements(RttInfo.up_buffers)
            /\ (data = ExampleBlock /\ ~is_64 /\ endianness = "Little") =>
                   /\ RttInfo.up_buffers =
                          <<[name           |-> BufferName("Up", 0),
                             buffer_address |-> U64(0, 536870912),
                             size           |-> 1024]>>
                   /\ RttInfo.down_buffers = <<>>

C10_Witness ==
    /\ RttDone
    /\ RttBytes = ExampleBlock
    /\ ~is_64
    /\ endianness = "Little"
    /\ Len(RttInfo.up_buffers) = 1

(***************************************************************************)
(* Reference notions for the decoded buffer lists: the declared count of a *)
(* direction, the offset of its descriptor array (aDown follows the       *)
(* MaxNumUpBuffers descriptors of aUp) and the fields of slot i.           *)
(***************************************************************************)
DeclaredCount(data, direction) ==
    U32At(data, IF direction = "Up" THEN 16 ELSE 20, endianness)

ArrayInData(data, direction) ==
    direction = "Up" \/ DeclaredCount(data, "Up") <= Len(data)

ArrayOffset(data, direction, p) ==
    IF direction = "Up" THEN 24
    ELSE 24 + DeclaredCount(data, "Up") * (2 * p + 16)

SlotFits(data, direction, p, i) ==
    /\ ArrayInData(data, direction)
    /\ i < DeclaredCount(data, direction)
    /\ i < 16
    /\ ArrayOffset(data, direction, p) + (i + 1) * (2 * p + 16) <= Len(data)

SlotBufferAddress(data, direction, p, i) ==
    PtrAt(data, ArrayOffset(data, direction, p) + i * (2 * p + 16) + p, p,
          endianness)

SlotSizeOfBuffer(data, direction, p, i) ==
    U32At(data, ArrayOffset(data, direction, p) + i * (2 * p + 16) + 2 * p,
          endianness)

DecodedList(direction) ==
    IF direction = "Up" THEN RttInfo.up_buffers ELSE RttInfo.down_buffers

(***************************************************************************)
(* C11: a slot whose buffer address is 0 or whose size is 0 is omitted     *)
(* from the decoded list, so every returned descriptor has a non-zero      *)
(* address and a non-zero size; each returned descriptor is named          *)
(* "Up {i}" or "Down {i}" with i its 0-based slot index in the control     *)
(* block (it carries the address and size stored in slot i), so the        *)
(* indices of a returned list are strictly increasing and may skip values. *)
(***************************************************************************)
C11_UnusedSlotsOmittedNamedBySlot ==
    (RttDone /\ Len(RttBytes) >= 24) =>
        \A direction \in {"Up", "Down"} :
            LET data == RttBytes
                p == IF is_64 THEN 8 ELSE 4
                list == DecodedList(direction)
            IN  /\ \A k \in 1..Len(list) :
                       LET i == list[k].name.index
                       IN  /\ list[k].name.direction = direction
                           /\ list[k].buffer_address # U64Zero
                           /\ list[k].size > 0
                           /\ i >= 0
                           /\ SlotFits(data, direction, p, i)
                           /\ list[k].buffer_address =
                                  SlotBufferAddress(data, direction, p, i)
                           /\ list[k].size =
                                  SlotSizeOfBuffer(data, direction, p, i)
                /\ \A k \in 1..(Len(list) - 1) :
                       list[k].name.index < list[k + 1].name.index
                /\ \A i \in 0..15 :
                       (/\ SlotFits(data, direction, p, i)
                        /\ \/ SlotBufferAddress(data, direction, p, i) = U64Zero
                           \/ SlotSizeOfBuffer(data, direction, p, i) = 0) =>
                           \A k \in 1..Len(list) : list[k].name.index # i

\* Slot 0 of aUp is unused and slot 1 is returned as the first descriptor.
C11_Witness ==
    /\ RttDone
    /\ Len(RttBytes) >= 24
    /\ Len(RttInfo.up_buffers) >= 1
    /\ RttInfo.up_buffers[1].name.index = 1
    /\ Len(RttInfo.down_buffers) >= 1
    /\ RttInfo.down_buffers[1].name.index = 1

(***************************************************************************)
(* C12: when no symbol of the binary matches a control-block name, RTT     *)
(* decoding succeeds with present = false, symbol_name, address, size,     *)
(* max_up_buffers and max_down_buffers absent, and up_buffers and          *)
(* down_buffers empty.                                                     *)
(***************************************************************************)
C12_NoSymbolMeansAbsent ==
    (/\ rttResult.status # "none"
     /\ container = "elf"
     /\ \A i \in 1..Len(symbols) :
            symbols[i].name.some => ~NamedAsAmended(symbols[i].name.value)) =>
        /\ rttResult.status = "Ok"
        /\ ~RttInfo.present
        /\ RttInfo.symbol_name = None
        /\ RttInfo.address = None
        /\ RttInfo.size = None
        /\ RttInfo.max_up_buffers = None
        /\ RttInfo.max_down_buffers = None
        /\ RttInfo.up_buffers = <<>>
        /\ RttInfo.down_buffers = <<>>

\* Two symbols, neither of them a control block, the second one lying in
\* the section that holds a control-block image.
C12_Witness ==
    /\ rttResult.status = "Ok"
    /\ Len(symbols) = 2
    /\ symbols[1].name = Some(main)
    /\ symbols[2].name = Some(<<"x">> \o SEGGER_RTT)
    /\ symbols[2].address = sections[1].address
    /\ ~RttInfo.present

(***************************************************************************)
(* Reference notions for the DWARF tree claims.                            *)
(***************************************************************************)
\* The nodes of a tree, or of a list of trees, in pre-order.
RECURSIVE PreOrder(_)
RECURSIVE PreOrderAll(_)
PreOrder(node) == <<node>> \o PreOrderAll(node.children)

PreOrderAll(nodes) ==
    IF nodes = <<>> THEN <<>>
    ELSE PreOrder(Head(nodes)) \o PreOrderAll(Tail(nodes))

IdSequence(info) ==
    LET nodes == PreOrderAll(info.compile_units)
    IN  [k \in 1..Len(nodes) |-> nodes[k].id]

DwarfDone == dwarfResult.status = "Ok"
DwarfNodes == PreOrderAll(dwarfResult.info.compile_units)

(***************************************************************************)
(* C13: building the DWARF tree twice from identical bytes yields the same *)
(* tree with an identical sequence of node ids: the ids depend on the      *)
(* input only, not on any state left by an earlier build.                  *)
(***************************************************************************)
C13_RebuildYieldsSameIds ==
    \A i, j \in 1..Len(builds) :
        /\ builds[i].status = builds[j].status
        /\ IdSequence(builds[i].info) = IdSequence(builds[j].info)
        /\ builds[i].info = builds[j].info

C13_Witness ==
    /\ Len(builds) = 2
    /\ builds[2].status = "Ok"
    /\ Len(builds[2].info.compile_units) = 2
    /\ IdSequence(builds[2].info) = <<0, 2, 1, 3, 4>>

\* The order the children of a node are claimed to be in: by category
\* rank, then addressed before unaddressed, by address, by name.
CategoryRank(tag) ==
    IF tag = "Subprogram" THEN 0
    ELSE IF tag = "Variable" THEN 1
    ELSE IF tag \in {"StructureType", "UnionType", "EnumerationType"} THEN 2
    ELSE IF tag = "Typedef" THEN 3
    ELSE IF tag = "Namespace" THEN 4
    ELSE 5

NameNotAfter(a, b) == a = b \/ StrLess(a, b)

InCategoryOrder(a, b) ==
    \/ CategoryRank(a.tag) < CategoryRank(b.tag)
    \/ /\ CategoryRank(a.tag) = CategoryRank(b.tag)
       /\ \/ a.address.some /\ b.address.some
             /\ a.address.value <= b.address.value
          \/ a.address.some /\ ~b.address.some
          \/ ~a.address.some /\ ~b.address.some /\ NameNotAfter(a.name, b.name)

ChildrenOrdered(node) ==
    \A k \in 1..(Len(node.children) - 1) :
        InCategoryOrder(node.children[k], node.children[k + 1])

NamesOfChildren(node) ==
    [k \in 1..Len(node.children) |-> node.children[k].name]

(***************************************************************************)
(* C14: in the built tree the children of every node, compile-unit roots   *)
(* and nested nodes alike, are ordered by category rank, then by address   *)
(* (addressed before unaddressed), then by name; three sibling members     *)
(* named "b", "a", "c" without addresses end up in the order a, b, c.      *)
(***************************************************************************)
C14_ChildrenOrderedEverywhere ==
    DwarfDone =>
        \A k \in 1..Len(DwarfNodes) : ChildrenOrdered(DwarfNodes[k])

\* The one node under the compile unit in SpecSize and SpecName, and the
\* entry it was built from.
TheEntry == debug_info[1].root.children[1]
TheNode == dwarfResult.info.compile_units[1].children[1]

AttrOf(entry, attr_name) ==
    LET hits == {k \in 1..Len(entry.attrs) : entry.attrs[k].name = attr_name}
    IN  IF hits = {} THEN None
        ELSE Some(entry.attrs[CHOOSE k \in hits : \A j \in hits : k <= j].value)

IntegerEncodings == {"Udata", "Data1", "Data2", "Data4", "Data8"}

\* The address a low-PC attribute denotes: given directly, or by its index
\* in .debug_addr.
LowPcOf(value) ==
    IF value.kind = "DebugAddrIndex" THEN DebugAddrTable[value.v + 1]
    ELSE value.v

(***************************************************************************)
(* C15: a node's size is the value of its byte-size attribute when that    *)
(* attribute is present in an integer encoding; without a byte-size        *)
(* attribute it is high-PC minus low-PC when high-PC is an address, the    *)
(* high-PC value itself when high-PC is an offset from low-PC, and absent  *)
(* otherwise.  A function with low-PC 0x1000 and high-PC the offset 0x40   *)
(* has size Some(0x40).                                                    *)
(***************************************************************************)
C15_SizeFromByteSizeOrPcRange ==
    DwarfDone =>
        LET byte_size == AttrOf(TheEntry, "DW_AT_byte_size")
            low_pc == AttrOf(TheEntry, "DW_AT_low_pc")
            high_pc == AttrOf(TheEntry, "DW_AT_high_pc")
        IN  /\ (byte_size.some /\ byte_size.value.kind \in IntegerEncodings) =>
                   TheNode.size = Some(byte_size.value.v)
            /\ ~byte_size.some =>
                   TheNode.size =
                       IF low_pc.some /\ high_pc.some
                          /\ high_pc.value.kind = "Addr"
                       THEN Some(high_pc.value.v - LowPcOf(low_pc.value))
                       ELSE IF low_pc.some /\ high_pc.some
                               /\ high_pc.value.kind \in IntegerEncodings
                            THEN Some(high_pc.value.v)
                            ELSE None

(***************************************************************************)
(* C16: for every kept node the attributes list holds exactly one (name,   *)
(* formatted value) pair for each attribute present on the entry, in entry *)
(* order, none omitted; an attribute whose value cannot be formatted is    *)
(* kept with the generic representation of its value, and no attribute     *)
(* aborts the tree build or is dropped.                                    *)
(***************************************************************************)
C16_EveryAttributeCaptured ==
    /\ (dwarfResult.status # "none" /\ ~TheEntry.fault) => DwarfDone
    /\ DwarfDone =>
           /\ ~TheEntry.fault
           /\ Len(TheNode.attributes) = Len(TheEntry.attrs)
           /\ \A k \in 1..Len(TheEntry.attrs) :
                  LET pair == TheNode.attributes[k]
                      attr == TheEntry.attrs[k]
                  IN  /\ pair[1] \in {attr.name, "Unknown"}
                      /\ pair[2].fmt = "{:?}" => pair[2].arg = attr.value
                      /\ attr.value.kind = "RangeListsRef" =>
                             pair[2].fmt = "{:?}"

\* An attribute of a kind the formatter does not know, kept in its generic
\* representation before a formatted one.
C16_Witness ==
    /\ DwarfDone
    /\ Len(TheEntry.attrs) = 2
    /\ TheEntry.attrs[1].value.kind = "RangeListsRef"
    /\ Len(TheNode.attributes) = 2
    /\ TheNode.attributes[1][2].fmt = "{:?}"
    /\ TheNode.attributes[2][2].fmt = "ref 0x{:x}"

(***************************************************************************)
(* C17: total_symbols equals the number of nodes of the returned tree:     *)
(* each compile unit contributes 1 for its root plus the number of kept    *)
(* descendants under it, and the total is the sum over all units.          *)
(***************************************************************************)
C17_TotalCountsNodes ==
    DwarfDone =>
        LET info == dwarfResult.info
        IN  /\ info.total_symbols = Len(PreOrderAll(info.compile_units))
            /\ info.present = (Len(info.compile_units) > 0)

\* Two compile units, the first with a function that has nested children
\* and a class whose member is discarded.
C17_Witness ==
    /\ DwarfDone
    /\ Len(debug_info) = 2
    /\ Len(debug_info[1].root.children) = 2
    /\ debug_info[1].root.children[1].tag = "DW_TAG_class_type"
    /\ debug_info[1].root.children[2].tag = "DW_TAG_subprogram"
    /\ Len(debug_info[1].root.children[2].children) = 3
    /\ Len(dwarfResult.info.compile_units) = 2
    /\ dwarfResult.info.total_symbols = 8

\* The string an attribute value holds, when it can be read.
StringOf(value) ==
    IF value.kind = "String" THEN Some(value.v)
    ELSE IF value.kind = "DebugStrRef" THEN value.v.str
         ELSE None

\* The first demangler that succeeds, the Rust one before the C++ ones;
\* the raw name when none does.
FirstDemangling(raw) ==
    IF rustc_demangle(raw).some THEN rustc_demangle(raw).value
    ELSE IF cpp_demangle(raw).some THEN cpp_demangle(raw).value
         ELSE raw

PlaceholderFor(tag) ==
    IF tag = "DW_TAG_lexical_block" THEN <<60, 98, 108, 111, 99, 107, 62>>
    ELSE IF tag = "DW_TAG_inlined_subroutine" THEN <<60, 105, 110, 108, 105, 110, 101, 100, 62>>
         ELSE <<60, 97, 110, 111, 110, 121, 109, 111, 117, 115, 62>>

NamedFrom(value) ==
    StringOf(value).some /\ TheNode.name = FirstDemangling(StringOf(value).value)

(***************************************************************************)
(* C18 as written: a kept node's name is derived from its linkage name     *)
(* when that attribute is present, else from its plain name, passed        *)
(* through demangling (first successful demangler wins, the raw name is    *)
(* kept when none succeeds); when the entry has neither attribute the name *)
(* is "<block>" for a lexical block, "<inlined>" for an inlined subroutine *)
(* and "<anonymous>" for any other kept tag.                               *)
(***************************************************************************)
C18_NameFromPresentAttribute ==
    DwarfDone =>
        LET linkage == AttrOf(TheEntry, "DW_AT_linkage_name")
            plain == AttrOf(TheEntry, "DW_AT_name")
        IN  IF linkage.some THEN NamedFrom(linkage.value)
            ELSE IF plain.some THEN NamedFrom(plain.value)
                 ELSE TheNode.name = PlaceholderFor(TheEntry.tag)

(***************************************************************************)
(* C18 amended: a kept node's name is derived from its linkage name when   *)
(* that attribute is present and can be read as a string, else from its    *)
(* plain name when that one is present and can be read as a string, passed *)
(* through demangling as above; when neither attribute yields a string     *)
(* the name is "<block>", "<inlined>" or "<anonymous>" by tag.             *)
(***************************************************************************)
C18_NameFromReadableAttribute ==
    DwarfDone =>
        LET linkage == AttrOf(TheEntry, "DW_AT_linkage_name")
            plain == AttrOf(TheEntry, "DW_AT_name")
        IN  IF linkage.some /\ StringOf(linkage.value).some
            THEN NamedFrom(linkage.value)
            ELSE IF plain.some /\ StringOf(plain.value).some
                 THEN NamedFrom(plain.value)
                 ELSE TheNode.name = PlaceholderFor(TheEntry.tag)

\* A function with both names: the linkage name wins and the Rust
\* demangler, which drops the hash, is the one that is used.
C18_Witness ==
    /\ DwarfDone
    /\ TheEntry.tag = "DW_TAG_subprogram"
    /\ AttrOf(TheEntry, "DW_AT_name").some
    /\ AttrOf(TheEntry, "DW_AT_linkage_name").some
    /\ AttrOf(TheEntry, "DW_AT_linkage_name").value.kind = "DebugStrRef"
    /\ TheNode.name = <<102, 111, 111, 58, 58, 98, 97, 114>>

\* The tree build has failed on a file whose container is well-formed.
DwarfFailed == dwarfResult.status = "Err" /\ container = "elf"

(***************************************************************************)
(* C19: a failure of the DWARF tree build on a binary does not make        *)
(* segment extraction, symbol extraction, RTT decoding or defmt scanning   *)
(* of the same binary fail: whether run before or after the failed build,  *)
(* each of them returns its normal result, the one the rest of the file    *)
(* determines.                                                             *)
(***************************************************************************)
C19_DwarfFailureLeavesOthersIntact ==
    DwarfFailed =>
        /\ segResult.status # "none" =>
               /\ segResult.status = "Ok"
               /\ segResult.segments =
                      parse_elf_segments(sections, memory_regions)
        /\ symResult.status # "none" =>
               /\ symResult.status = "Ok"
               /\ symResult.value = parse_elf_symbols(symbols)
        /\ rttResult.status # "none" =>
               /\ rttResult.status = "Ok"
               /\ rttResult.info =
                      parse_rtt_info(is_64, endianness, symbols, sections)
        /\ defmtResult.status # "none" =>
               /\ defmtResult.status = "Ok"
               /\ defmtResult.value = parse_defmt_info(sections)

\* All four other operations have run on a file whose tree build failed,
\* and each found something: segments, symbols, the control block and a
\* defmt section.
C19_Witness ==
    /\ DwarfFailed
    /\ segResult.status = "Ok" /\ Len(segResult.segments) = 2
    /\ symResult.status = "Ok" /\ Len(symResult.value) = 2
    /\ rttResult.status = "Ok" /\ Len(rttResult.info.up_buffers) = 1
    /\ defmtResult.status = "Ok" /\ defmtResult.value.present

\* The "Partially outside" messages the regions call for when examined in
\* catalog order up to the first region that fully contains the segment.
RECURSIVE PartialOverlapsBeforeHolder(_, _)
PartialOverlapsBeforeHolder(seg, regions) ==
    IF regions = <<>> THEN <<>>
    ELSE IF RegionContains(Head(regions), seg) THEN <<>>
         ELSE IF RegionTouches(Head(regions), seg)
              THEN <<PartiallyOutside(Head(regions).name)>>
                       \o PartialOverlapsBeforeHolder(seg, Tail(regions))
              ELSE PartialOverlapsBeforeHolder(seg, Tail(regions))

IsPartiallyOutside(c) == c.msg = PartiallyOutside("").msg

(***************************************************************************)
(* C20: with regions supplied, a segment's conflicts contain "Partially    *)
(* outside {R.name} region" exactly for the regions R that intersect the   *)
(* segment without fully containing it and come before the first region    *)
(* that fully contains it in catalog order (for all such regions when none *)
(* contains it), one message per such region, in catalog order.            *)
(***************************************************************************)
C20_PartiallyOutsideBeforeFirstHolder ==
    ConflictsChecked =>
        \A i \in 1..Len(segResult.segments) :
            LET seg == segResult.segments[i]
            IN  SelectSeq(seg.conflicts, IsPartiallyOutside)
                    = PartialOverlapsBeforeHolder(seg, memory_regions.value)

IsOverlapMessage(c) == c.msg = OverlapsWith("").msg

\* Position, in the address-sorted list, of the segment a message names.
NamedSegment(c) ==
    CHOOSE j \in 1..Len(segResult.segments) : segResult.segments[j].name = c.arg

(***************************************************************************)
(* C21: in every segment's conflicts list all "Overlaps with" messages     *)
(* come before any region diagnostic, and the overlap messages appear in   *)
(* the order in which the other segments appear in the address-sorted      *)
(* segment list.                                                           *)
(***************************************************************************)
C21_OverlapsFirstInListOrder ==
    ConflictsChecked =>
        \A i \in 1..Len(segResult.segments) :
            LET conflicts == segResult.segments[i].conflicts
            IN  \A p, q \in 1..Len(conflicts) :
                    p < q =>
                        /\ IsOverlapMessage(conflicts[q])
                               => IsOverlapMessage(conflicts[p])
                        /\ (IsOverlapMessage(conflicts[p])
                               /\ IsOverlapMessage(conflicts[q]))
                               => NamedSegment(conflicts[p])
                                      < NamedSegment(conflicts[q])

\* A segment that overlaps two others and lies partially outside a region:
\* two overlap messages, then the region diagnostic.
C21_Witness ==
    /\ ConflictsChecked
    /\ \E i \in 1..Len(segResult.segments) :
           LET conflicts == segResult.segments[i].conflicts
           IN  /\ Len(conflicts) >= 3
               /\ IsOverlapMessage(conflicts[1])
               /\ IsOverlapMessage(conflicts[2])
               /\ conflicts[1] # conflicts[2]
               /\ conflicts[3].msg = PartiallyOutside("").msg

\* The down slots a decoder that takes aDown to start at byte base returns:
\* those below min(MaxNumDownBuffers, 16) that lie inside the data and hold
\* a non-zero address and a non-zero size.
DownSlotAt(data, base, p, j) == base + j * (2 * p + 16)

DownSlotsUsedAt(data, base, p) ==
    { j \in 0..15 :
        /\ j < DeclaredCount(data, "Down")
        /\ DownSlotAt(data, base, p, j + 1) <= Len(data)
        /\ PtrAt(data, DownSlotAt(data, base, p, j) + p, p, endianness) # U64Zero
        /\ U32At(data, DownSlotAt(data, base, p, j) + 2 * p, endianness) > 0 }

DownDecodedFrom(data, base, p) ==
    LET list == RttInfo.down_buffers
    IN  /\ {list[k].name.index : k \in 1..Len(list)}
               = DownSlotsUsedAt(data, base, p)
        /\ \A k \in 1..Len(list) :
               LET at == DownSlotAt(data, base, p, list[k].name.index)
               IN  /\ list[k].buffer_address = PtrAt(data, at + p, p, endianness)
                   /\ list[k].size = U32At(data, at + 2 * p, endianness)

\* Any offset beyond the data stands for a product too large to be inside it.
ScaledOffset(data, count, p) ==
    24 + (IF count > Len(data) THEN Len(data) + 1 ELSE count * (2 * p + 16))

(***************************************************************************)
(* C22 as written: the down-buffer array is decoded starting immediately   *)
(* after an up-buffer array of min(MaxNumUpBuffers, 16) entries: down slot *)
(* j is read from offset 24 + min(MaxNumUpBuffers, 16) * (2*ptr_size + 16) *)
(* + j * (2*ptr_size + 16), for every MaxNumUpBuffers, above 16 included.  *)
(***************************************************************************)
C22_DownArrayAfterClampedUpArray ==
    (RttDone /\ Len(RttBytes) >= 24) =>
        LET p == IF is_64 THEN 8 ELSE 4
        IN  DownDecodedFrom(RttBytes,
                            ScaledOffset(RttBytes,
                                         Min(DeclaredCount(RttBytes, "Up"), 16),
                                         p),
                            p)

(***************************************************************************)
(* C22 amended: the down-buffer array is decoded starting after an         *)
(* up-buffer array of MaxNumUpBuffers entries, the declared count, not     *)
(* clamped: down slot j is read from offset 24 + MaxNumUpBuffers *         *)
(* (2*ptr_size + 16) + j * (2*ptr_size + 16), for every MaxNumUpBuffers,   *)
(* above 16 included; only the number of up slots examined is clamped.     *)
(***************************************************************************)
C22_DownArrayAfterDeclaredUpArray ==
    (RttDone /\ Len(RttBytes) >= 24) =>
        LET p == IF is_64 THEN 8 ELSE 4
        IN  DownDecodedFrom(RttBytes,
                            ScaledOffset(RttBytes,
                                         DeclaredCount(RttBytes, "Up"), p),
                            p)

\* 17 up buffers are declared and the first down buffer is the one stored
\* behind the 17th up descriptor.
C22_Witness ==
    /\ RttDone
    /\ Len(RttBytes) >= 24
    /\ DeclaredCount(RttBytes, "Up") = 17
    /\ Len(RttInfo.down_buffers) >= 1
    /\ RttInfo.down_buffers[1].name.index = 0
    /\ RttInfo.down_buffers[1].buffer_address
           = SlotAddress("Down", IF is_64 THEN 8 ELSE 4, 0)

(***************************************************************************)
(* C23: whatever MaxNumUpBuffers and MaxNumDownBuffers declare, decoding   *)
(* examines at most 16 up slots and 16 down slots: up_buffers and          *)
(* down_buffers have at most 16 entries each and every surfaced slot index *)
(* is in 0..15, while max_up_buffers and max_down_buffers report the       *)
(* declared, unclamped counts.                                             *)
(***************************************************************************)
C23_AtMostSixteenSlotsCountsUnclamped ==
    (RttDone /\ Len(RttBytes) >= 24) =>
        /\ \A direction \in {"Up", "Down"} :
               /\ Len(DecodedList(direction)) <= 16
               /\ \A k \in 1..Len(DecodedList(direction)) :
                      DecodedList(direction)[k].name.index \in 0..15
        /\ RttInfo.max_up_buffers = Some(DeclaredCount(RttBytes, "Up"))
        /\ RttInfo.max_down_buffers = Some(DeclaredCount(RttBytes, "Down"))

\* 17 up and 17 down buffers are declared and stored: 16 of each are
\* returned, and the counts say 17.
C23_Witness ==
    /\ RttDone
    /\ Len(RttBytes) >= 24
    /\ RttInfo.max_up_buffers = Some(17)
    /\ RttInfo.max_down_buffers = Some(17)
    /\ Len(RttInfo.up_buffers) = 16
    /\ Len(RttInfo.down_buffers) = 16
    /\ RttInfo.down_buffers[16].name.index = 15

Descendants(node) == PreOrderAll(node.children)

(***************************************************************************)
(* C24: every node of the built tree, compile-unit roots included, has an  *)
(* id that is unique across the whole parse, taken from one counter shared *)
(* by all compilation units and advanced in pre-order: a node's id is      *)
(* smaller than the id of each of its descendants, and every id of one     *)
(* compilation unit is smaller than every id of any later unit.            *)
(***************************************************************************)
C24_IdsUniqueAndPreOrdered ==
    DwarfDone =>
        LET units == dwarfResult.info.compile_units
        IN  /\ \A i, j \in 1..Len(DwarfNodes) :
                   i # j => DwarfNodes[i].id # DwarfNodes[j].id
            /\ \A i \in 1..Len(DwarfNodes) :
                   \A k \in 1..Len(Descendants(DwarfNodes[i])) :
                       DwarfNodes[i].id < Descendants(DwarfNodes[i])[k].id
            /\ \A u, v \in 1..Len(units) :
                   u < v =>
                       \A i \in 1..Len(PreOrder(units[u])) :
                           \A j \in 1..Len(PreOrder(units[v])) :
                               PreOrder(units[u])[i].id < PreOrder(units[v])[j].id

\* Two compile units, the first with a function that has a nested block:
\* the second unit's root continues the numbering of the first.
C24_Witness ==
    /\ DwarfDone
    /\ Len(dwarfResult.info.compile_units) = 2
    /\ \E k \in 1..Len(DwarfNodes) :
           /\ DwarfNodes[k].tag = "LexicalBlock"
           /\ Len(DwarfNodes[k].children) = 1
    /\ dwarfResult.info.compile_units[2].id
           = Len(PreOrder(dwarfResult.info.compile_units[1]))

\* The tags that produce a node, with the tag each node carries.
NodeTagOf ==
    [DW_TAG_subprogram         |-> "Subprogram",
     DW_TAG_variable           |-> "Variable",
     DW_TAG_formal_parameter   |-> "FormalParameter",
     DW_TAG_lexical_block      |-> "LexicalBlock",
     DW_TAG_inlined_subroutine |-> "InlinedSubroutine",
     DW_TAG_structure_type     |-> "StructureType",
     DW_TAG_union_type         |-> "UnionType",
     DW_TAG_enumeration_type   |-> "EnumerationType",
     DW_TAG_member             |-> "Member",
     DW_TAG_typedef            |-> "Typedef",
     DW_TAG_namespace          |-> "Namespace",
     DW_TAG_enumerator         |-> "Member"]

HasKeptTag(entry) == entry.tag \in DOMAIN NodeTagOf

\* The entries below a root that have a kept tag, as have all entries
\* between them and the root, in pre-order.
RECURSIVE YieldingEntries(_)
YieldingEntries(entries) ==
    IF entries = <<>> THEN <<>>
    ELSE (IF HasKeptTag(Head(entries))
          THEN <<Head(entries)>> \o YieldingEntries(Head(entries).children)
          ELSE <<>>)
         \o YieldingEntries(Tail(entries))

HasCompileUnitRoot(unit) == unit.root.tag = "DW_TAG_compile_unit"

KeptAmong(entries) == SelectSeq(entries, HasKeptTag)

StrictlyIncreasing(seq) == \A k \in 1..(Len(seq) - 1) : seq[k] < seq[k + 1]

IdsOf(nodes) == [k \in 1..Len(nodes) |-> nodes[k].id]

(***************************************************************************)
(* C26 as written: a pre-order depth-first traversal of the returned tree, *)
(* visiting compile units in list order and each node's children in their  *)
(* stored order, meets the node ids in strictly increasing order.          *)
(***************************************************************************)
C26_TraversalMeetsIncreasingIds ==
    DwarfDone => StrictlyIncreasing(IdSequence(dwarfResult.info))

(***************************************************************************)
(* C26 amended: a pre-order depth-first traversal of the subtree of any    *)
(* direct child of a compile-unit root, visiting children in their stored  *)
(* order, meets the node ids in strictly increasing order, and a           *)
(* compile-unit root is met before its subtrees with the smallest id of    *)
(* its unit; the direct children of a compile-unit root are stored in the  *)
(* order of its sort, not in the order of their ids.                       *)
(***************************************************************************)
C26_SubtreesMeetIncreasingIds ==
    DwarfDone =>
        \A u \in 1..Len(dwarfResult.info.compile_units) :
            LET cu == dwarfResult.info.compile_units[u]
            IN  /\ \A c \in 1..Len(cu.children) :
                       /\ StrictlyIncreasing(IdsOf(PreOrder(cu.children[c])))
                       /\ cu.id < cu.children[c].id
                /\ \A c, d \in 1..Len(cu.children) :
                       c < d => CompareChildren(cu.children[d], cu.children[c])
                                    # "Less"

\* A variable numbered 1 is stored behind a function numbered 2, whose
\* parameters, block and local follow it in the order of their ids.
C26_Witness ==
    /\ DwarfDone
    /\ IdSequence(dwarfResult.info) = <<0, 2, 3, 4, 5, 6, 1>>

\* The slots of an array, below min(declared count, 16), that lie inside
\* the data with all their bytes.
SlotsInside(data, direction, p) ==
    {i \in 0..15 : SlotFits(data, direction, p, i)}

(***************************************************************************)
(* C27: control-block decoding never reads a byte at or beyond the end of  *)
(* the available data: a descriptor is decoded only when all of its        *)
(* 2*ptr_size+16 bytes lie inside the data, decoding of an array stops at  *)
(* the first slot that does not fit, and truncated data yields fewer       *)
(* buffers than declared instead of an error.                              *)
(***************************************************************************)
C27_NoReadBeyondData ==
    rttResult.status # "none" =>
        LET data == RttBytes
            p == IF is_64 THEN 8 ELSE 4
        IN  /\ rttResult.status = "Ok"
            /\ \A offset \in decode_rtt_control_block_reads(data, p, endianness) :
                   offset >= 0 /\ offset < Len(data)
            /\ \A direction \in {"Up", "Down"} :
                   IF Len(data) < 24
                   THEN DecodedList(direction) = <<>>
                   ELSE /\ \A k \in 1..Len(DecodedList(direction)) :
                               DecodedList(direction)[k].name.index
                                   \in SlotsInside(data, direction, p)
                        /\ Len(DecodedList(direction))
                               <= Cardinality(SlotsInside(data, direction, p))

\* Two down buffers are declared, the data ends one byte short of the
\* second down descriptor, and one down buffer is returned.
C27_Witness ==
    /\ RttDone
    /\ Len(RttBytes) >= 24
    /\ DeclaredCount(RttBytes, "Down") = 2
    /\ DeclaredCount(RttBytes, "Up") = 1
    /\ Len(RttBytes) = 24 + 3 * (2 * (IF is_64 THEN 8 ELSE 4) + 16) - 1
    /\ Len(RttInfo.up_buffers) = 1
    /\ Len(RttInfo.down_buffers) = 1

\* The ids the nodes of a tree carry.
IdSet(info) == {IdSequence(info)[k] : k \in 1..Len(IdSequence(info))}

(***************************************************************************)
(* C28: after a successful build the set of ids carried by the nodes of    *)
(* the returned tree is exactly {0, ..., total_symbols - 1}: the counter   *)
(* is advanced only for entries that end up as nodes of the result, so     *)
(* there are no gaps and no id is consumed by a discarded entry.           *)
(***************************************************************************)
C28_IdsFillRangeBelowTotal ==
    DwarfDone =>
        /\ IdSet(dwarfResult.info) = 0..(dwarfResult.info.total_symbols - 1)
        /\ id_counter = dwarfResult.info.total_symbols

\* A unit whose first child is a discarded class with a member, followed
\* by a kept entry, and a second unit after it: the kept entry has id 1
\* and the second unit's root follows the first unit's last node.
C28_Witness ==
    /\ DwarfDone
    /\ Len(debug_info) = 2
    /\ Len(debug_info[1].root.children) = 2
    /\ debug_info[1].root.children[1].tag = "DW_TAG_class_type"
    /\ Len(debug_info[1].root.children[1].children) = 1
    /\ Len(dwarfResult.info.compile_units) = 2
    /\ Len(dwarfResult.info.compile_units[1].children) = 1
    /\ dwarfResult.info.compile_units[1].children[1].id = 1
    /\ dwarfResult.info.compile_units[2].id
           = Len(PreOrder(dwarfResult.info.compile_units[1]))
    /\ dwarfResult.info.total_symbols >= 3

(***************************************************************************)
(* C29: in MemoryView, after any sequence of segment clicks (each on the   *)
(* index of an existing segment), target changes (named or "(No target)",  *)
(* succeeding or failing) and DWARF symbol selections, whenever            *)
(* symbols_table is set, selected_segment is Some(i) with                  *)
(* i < segments.len(); hence the lookup render unwraps for the symbols     *)
(* panel never fails.                                                      *)
(***************************************************************************)
C29_TableImpliesExistingSelection ==
    view.status # "none" =>
        /\ view.symbols_table.some =>
               /\ view.selected_segment.some
               /\ view.selected_segment.value >= 0
               /\ view.selected_segment.value < Len(view.segments)
        /\ ~RenderPanics(view)

\* After a change to chipB, on a file that now has one segment, a click
\* has opened the table of that segment.
C29_Witness ==
    /\ view.status = "running"
    /\ event.seq = MaxEvents
    /\ event.handler = "on_segment_click"
    /\ Len(view.memory_regions) = 1
    /\ view.memory_regions[1].size = 32
    /\ Len(view.segments) = 1
    /\ view.selected_segment = Some(0)
    /\ view.symbols_table.some
    /\ Len(view.symbols_table.value) = 1

\* The fields of MemoryView the layout of a target decides.
LayoutFields(v) ==
    <<v.segments, v.memory_regions, v.selected_segment, v.symbols_table,
      v.defmt_info, v.rtt_info>>

\* The memory-map lookup of a target succeeds.
LookupSucceeds(target) ==
    TargetCatalog[target].some /\ TargetCatalog[target].value # <<>>

\* The start and size of every range of a target's memory map.
RangesOf(target) ==
    {<<TargetCatalog[target].value[k].start,
       TargetCatalog[target].value[k].end - TargetCatalog[target].value[k].start>> :
         k \in 1..Len(TargetCatalog[target].value)}

(***************************************************************************)
(* C30: on_target_change for a named target is all-or-nothing for the      *)
(* memory layout: when the memory-map lookup or the segment re-parse       *)
(* fails, segments, memory_regions, selected_segment, symbols_table,       *)
(* defmt_info and rtt_info are left unchanged; when both succeed, segments *)
(* and memory_regions are replaced together by the new target's results,   *)
(* the conflicts of the segments being computed against exactly the        *)
(* memory_regions then stored, and the segment selection is cleared.       *)
(***************************************************************************)
C30_NamedTargetChangeAllOrNothing ==
    [][(/\ event'.seq # event.seq
        /\ event'.handler = "on_target_change"
        /\ event'.target # NoTarget
        /\ view'.status = "running") =>
           IF ~LookupSucceeds(event'.target) \/ container # "elf"
           THEN LayoutFields(view') = LayoutFields(view)
           ELSE /\ {<<view'.memory_regions[k].start,
                      view'.memory_regions[k].size>> :
                        k \in 1..Len(view'.memory_regions)}
                       = RangesOf(event'.target)
                /\ Len(view'.memory_regions)
                       = Len(TargetCatalog[event'.target].value)
                /\ ClearConflicts(view'.segments)
                       = parse_elf_segments(sections, None)
                /\ view'.segments
                       = detect_conflicts(ClearConflicts(view'.segments),
                                          view'.memory_regions)
                /\ view'.selected_segment = None
                /\ view'.symbols_table = None]_vars

\* A change to chipB has replaced the layout, leaving a segment with a
\* conflict, and a later change to a target without memory map has left
\* all of it in place.
C30_Witness ==
    /\ view.status = "running"
    /\ event.seq = MaxEvents
    /\ event.handler = "on_target_change"
    /\ event.target = "chipNoMemory"
    /\ Len(view.memory_regions) = 1
    /\ view.memory_regions[1].size = 32
    /\ Len(view.segments) = 2
    /\ view.segments[1].conflicts # <<>>
    /\ view.selected_segment = Some(1)
    /\ view.symbols_table.some

====
